---- MODULE Spec2Model ----
(***************************************************************************)
(* Routing core of the routing-animation application: the access rule      *)
(* engine (road-types.ts), the parser's graph shape (osm/parser.ts) and    *)
(* the A* search generator (routing/a-star.ts), the geometric matcher      *)
(* (routing/map-matching.ts) and the handlers of the application (main.ts) *)
(* that call them.                                                         *)
(*                                                                         *)
(* Numbers.  Coordinates are whole multiples of one latitude step on a     *)
(* single meridian, so haversine() is exactly the absolute difference of   *)
(* the two latitudes, counted in steps.  Times are exact rationals in the  *)
(* source (distance / (speed / 3.6)); here every time is multiplied by     *)
(* the same factor TimeScale / 3.6, which keeps every comparison and every *)
(* sum the search makes and turns the times into integers.                 *)
(***************************************************************************)
EXTENDS Integers, Sequences, FiniteSets, TLC

VARIABLES
    filename,            \* the map file that was loaded, by the choices that make it up
    graph,               \* the RoutingGraph handed to aStarRoute
    startNodeId,         \* aStarRoute's arguments
    endNodeId,
    mode,
    ignoreRestrictions,
    search,              \* the generator's frame: locals, position, yielded steps
    origin,              \* main.ts: the two snap results, or null
    destination,
    clickState,          \* main.ts: what the next click on the map sets
    markers,             \* the renderer's origin and destination marker: on the map or not
    animating,           \* the animator has a frame requested (animationId is not null)
    loading,             \* the loadMap calls under way, each at one of its awaits
    route,               \* the arguments of the search run by the handler that ran last
    heap,                \* the edge objects of the path that was trimmed and of its copies
    finalPath,           \* trimRouteToSnapPoints' argument path, as references into heap
    trimmed,             \* the TrimmedRoute that was returned, as references into heap
    snapCall,            \* a snapToRoad call on its own: its arguments, loop variables, result
    searches,            \* the arguments of every search run by the handler that ran last
    selected,            \* the settings panel's mapSelect.value: the file selected last
    animator,            \* an Animator on its own: its fields and the callbacks it made
    minHeap              \* a MinHeap on its own: its array and the calls made on it

vars == <<filename, graph, startNodeId, endNodeId, mode, ignoreRestrictions, search,
          origin, destination, clickState, markers, animating, loading, route,
          heap, finalPath, trimmed, snapCall, searches, selected, animator, minHeap>>

\* ------------------------------------------------------------------------
\* Bounds of the checked family of inputs
\* ------------------------------------------------------------------------

\* The largest number of ways (each one segment long) in a parsed map.
MaxWays == 4

\* The largest number of access tags that a way carries at once.
MaxTags == 3

\* The largest number of nd elements in a way whose references vary.
MaxRefs == 3

\* The most loadMap calls under way at one time.
MaxLoads == 1

\* The most loadMap calls under way at one time when loads overlap.
MaxOverlap == 2

\* The most push calls on a MinHeap that is used on its own.
MaxPushes == 5

\* The most start calls that an Animator on its own is given.
MaxRuns == 2

\* The most frames that an Animator on its own requests.
MaxFrames == 4

\* The most edges of a hand-built path.
MaxEdges == 3

\* ------------------------------------------------------------------------
\* osm/graph.ts: types
\* ------------------------------------------------------------------------

RoutingMode == {"car", "bicycle", "pedestrian"}

\* The value of an optional field that is absent (undefined in the source).
undefined == "undefined"

\* ------------------------------------------------------------------------
\* routing/road-types.ts
\* ------------------------------------------------------------------------

CAR_BLOCKING_BARRIERS ==
    {"bollard", "block", "cycle_barrier", "bus_trap", "kissing_gate", "stile",
     "turnstile", "planter", "height_restrictor", "sally_port", "yes"}

BICYCLE_BLOCKING_BARRIERS == {"block", "kissing_gate", "stile", "turnstile"}

\* node.barrier is undefined or a string; the empty string is falsy too.
isBarrierBlocking(node, m) ==
    IF node.barrier = undefined \/ node.barrier = "" THEN FALSE
    ELSE IF m = "car" THEN node.barrier \in CAR_BLOCKING_BARRIERS
    ELSE IF m = "bicycle" THEN node.barrier \in BICYCLE_BLOCKING_BARRIERS
    ELSE FALSE

Access(c, b, p) == [car |-> c, bicycle |-> b, pedestrian |-> p]

ROAD_ACCESS ==
    [h \in {"motorway", "motorway_link", "trunk", "trunk_link"} |->
        Access(TRUE, FALSE, FALSE)]
    @@ [h \in {"primary", "primary_link", "secondary", "secondary_link",
               "tertiary", "tertiary_link", "residential", "unclassified",
               "service", "living_street"} |-> Access(TRUE, TRUE, TRUE)]
    @@ [h \in {"cycleway"} |-> Access(FALSE, TRUE, TRUE)]
    @@ [h \in {"footway", "pedestrian", "path", "steps"} |->
        Access(FALSE, FALSE, TRUE)]
    @@ [h \in {"busway"} |-> Access(FALSE, FALSE, FALSE)]

DEFAULT_SPEEDS ==
    [h \in {"motorway"} |-> 100] @@ [h \in {"motorway_link"} |-> 60]
    @@ [h \in {"trunk"} |-> 80] @@ [h \in {"trunk_link", "primary", "secondary",
                                          "busway"} |-> 50]
    @@ [h \in {"primary_link"} |-> 40]
    @@ [h \in {"secondary_link", "tertiary", "residential", "unclassified"} |-> 30]
    @@ [h \in {"tertiary_link", "cycleway"} |-> 20]
    @@ [h \in {"service", "living_street"} |-> 15]
    @@ [h \in {"footway", "pedestrian", "path"} |-> 5]
    @@ [h \in {"steps"} |-> 3]

\* DENY_VALUES with 'destination' among the denying values.
DENY_VALUES_WithDestination == {"no", "private", "destination"}

DENY_VALUES == {"no", "private"}

\* isEdgeAccessible with the vehicle tag consulted before the tag of the mode.
isEdgeAccessible_VehicleFirst(edge, m) ==
    IF edge.highway \notin DOMAIN ROAD_ACCESS THEN FALSE
    ELSE IF ~ROAD_ACCESS[edge.highway][m] THEN FALSE
    ELSE IF m = "car" /\ edge.vehicle # undefined
        THEN edge.vehicle \notin DENY_VALUES
    ELSE IF m = "car" /\ edge.motorVehicle # undefined
        THEN edge.motorVehicle \notin DENY_VALUES
    ELSE IF m = "bicycle" /\ edge.vehicle # undefined
        THEN edge.vehicle \notin DENY_VALUES
    ELSE IF m = "bicycle" /\ edge.bicycle # undefined
        THEN edge.bicycle \notin DENY_VALUES
    ELSE IF m = "pedestrian" /\ edge.foot # undefined
        THEN edge.foot \notin DENY_VALUES
    ELSE IF edge.access # undefined THEN edge.access \notin DENY_VALUES
    ELSE TRUE

\* isEdgeAccessible with the highway table consulted only when no tag decides.
isEdgeAccessible_TagsFirst(edge, m) ==
    IF m = "car" /\ edge.motorVehicle # undefined
        THEN edge.motorVehicle \notin DENY_VALUES
    ELSE IF m = "car" /\ edge.vehicle # undefined
        THEN edge.vehicle \notin DENY_VALUES
    ELSE IF m = "bicycle" /\ edge.bicycle # undefined
        THEN edge.bicycle \notin DENY_VALUES
    ELSE IF m = "bicycle" /\ edge.vehicle # undefined
        THEN edge.vehicle \notin DENY_VALUES
    ELSE IF m = "pedestrian" /\ edge.foot # undefined
        THEN edge.foot \notin DENY_VALUES
    ELSE IF edge.access # undefined THEN edge.access \notin DENY_VALUES
    ELSE IF edge.highway \notin DOMAIN ROAD_ACCESS THEN FALSE
    ELSE ROAD_ACCESS[edge.highway][m]

isEdgeAccessible(edge, m) ==
    IF edge.highway \notin DOMAIN ROAD_ACCESS THEN FALSE
    ELSE IF ~ROAD_ACCESS[edge.highway][m] THEN FALSE
    ELSE IF m = "car" /\ edge.motorVehicle # undefined
        THEN edge.motorVehicle \notin DENY_VALUES
    ELSE IF m = "car" /\ edge.vehicle # undefined
        THEN edge.vehicle \notin DENY_VALUES
    ELSE IF m = "bicycle" /\ edge.bicycle # undefined
        THEN edge.bicycle \notin DENY_VALUES
    ELSE IF m = "bicycle" /\ edge.vehicle # undefined
        THEN edge.vehicle \notin DENY_VALUES
    ELSE IF m = "pedestrian" /\ edge.foot # undefined
        THEN edge.foot \notin DENY_VALUES
    ELSE IF edge.access # undefined THEN edge.access \notin DENY_VALUES
    ELSE TRUE

\* canTraverseDirection with ignoreRestrictions not consulted for cars.
canTraverseDirection_CarNeverAgainst(edge, fromNodeId, m, ignore) ==
    IF m = "pedestrian" THEN TRUE
    ELSE IF ~edge.oneway THEN TRUE
    ELSE IF m = "bicycle"
        THEN (IF ~edge.isReverse THEN TRUE ELSE ~edge.onewayBicycle)
    ELSE ~edge.isReverse

\* canTraverseDirection with bicycles treated like cars.
canTraverseDirection_BicycleLikeCar(edge, fromNodeId, m, ignore) ==
    IF m = "pedestrian" THEN TRUE
    ELSE IF ~edge.oneway THEN TRUE
    ELSE IF ignore THEN TRUE
    ELSE ~edge.isReverse

canTraverseDirection(edge, fromNodeId, m, ignore) ==
    IF m = "pedestrian" THEN TRUE
    ELSE IF ~edge.oneway THEN TRUE
    ELSE IF m = "bicycle"
        THEN (IF ~edge.isReverse THEN TRUE ELSE ~edge.onewayBicycle)
    ELSE IF ignore THEN TRUE
    ELSE ~edge.isReverse

getTravelSpeed(edge, m) ==
    IF m = "bicycle" THEN 20
    ELSE IF m = "pedestrian" THEN 5
    ELSE IF edge.maxspeed > 0 THEN edge.maxspeed
    ELSE IF edge.highway \in DOMAIN DEFAULT_SPEEDS
        THEN DEFAULT_SPEEDS[edge.highway]
    ELSE 30

getMaxSpeed(m) ==
    IF m = "bicycle" THEN 20
    ELSE IF m = "pedestrian" THEN 5
    ELSE 100

\* A common multiple of every speed the checked inputs can produce: of the
\* values of DEFAULT_SPEEDS, of the two fixed speeds and of the maxspeed tags
\* of WayKinds below.
TimeScale == 1200

\* edge.distance / (speedKmh / 3.6), times TimeScale / 3.6.
getTravelTime(edge, m) == (edge.distance * TimeScale) \div getTravelSpeed(edge, m)

\* ------------------------------------------------------------------------
\* osm/parser.ts
\* ------------------------------------------------------------------------

Abs(x) == IF x < 0 THEN -x ELSE x

\* Great-circle distance of two points of one meridian, in latitude steps.
haversine(lat1, lon1, lat2, lon2) == Abs(lat2 - lat1)


\* The decimal texts that occur as maxspeed tags in the checked maps, with the
\* number parseInt(text, 10) reads from each; on any other text it gives NaN.
DecimalTexts == ("50" :> 50) @@ ("120" :> 120)

\* maxspeedTag ? parseInt(maxspeedTag, 10) || 0 : 0
parseMaxspeed(maxspeedTag) ==
    IF maxspeedTag = undefined \/ maxspeedTag = "" THEN 0
    ELSE IF maxspeedTag \in DOMAIN DecimalTexts THEN DecimalTexts[maxspeedTag]
    ELSE 0

\* What getAttribute gives for an attribute that the element does not have.
null == "null"

\* The number NaN: a value no attribute text of the checked maps denotes.  The
\* parser only ever tests it with isNaN and looks it up as a key of allNodes.
NaN == -1

isNaN(x) == x = NaN

\* The decimal texts that occur as id, lat, lon and ref attributes in the
\* checked maps, with the number each denotes.
NumberTexts ==
    ("0" :> 0) @@ ("1" :> 1) @@ ("2" :> 2) @@ ("3" :> 3) @@ ("4" :> 4)
    @@ ("5" :> 5) @@ ("6" :> 6)

\* Number(text): 0 for null and for the empty text, the number a decimal text
\* denotes, and NaN for any other text.
Number(text) ==
    IF text = null \/ text = "" THEN 0
    ELSE IF text \in DOMAIN NumberTexts THEN NumberTexts[text]
    ELSE NaN

\* Step 1: the node elements whose id, lat and lon are numbers, by id; a later
\* element with the same id replaces an earlier one.
RECURSIVE ParseNodes(_, _, _)
ParseNodes(nodeEls, i, allNodes) ==
    IF i > Len(nodeEls) THEN allNodes
    ELSE LET el == nodeEls[i]
             id == Number(el.id)
             lat == Number(el.lat)
             lon == Number(el.lon)
             node == [id |-> id, lat |-> lat, lon |-> lon, barrier |-> el.barrier]
         IN  IF ~isNaN(id) /\ ~isNaN(lat) /\ ~isNaN(lon)
             THEN ParseNodes(nodeEls, i + 1,
                             IF id \in DOMAIN allNodes
                             THEN [allNodes EXCEPT ![id] = node]
                             ELSE allNodes @@ (id :> node))
             ELSE ParseNodes(nodeEls, i + 1, allNodes)

\* Lines 108-112: the numbers of the ref attributes of a way's nd elements.
RECURSIVE NodeIdsOfRefs(_)
NodeIdsOfRefs(refs) ==
    IF Len(refs) = 0 THEN <<>>
    ELSE <<Number(Head(refs))>> \o NodeIdsOfRefs(Tail(refs))

\* A way element after its tags are read (parseOSM, the head of the ways loop).
WayFields(way) ==
    [ wayId |-> way.id,
      highway |-> way.highway,
      oneway |-> way.oneway \in {"yes", "1", "true"},
      onewayBicycle |-> way.onewayBicycle # "no",
      maxspeed |-> parseMaxspeed(way.maxspeed),
      access |-> way.access,
      motorVehicle |-> way.motorVehicle,
      vehicle |-> way.vehicle,
      bicycle |-> way.bicycle,
      foot |-> way.foot ]

\* The directed edge of one way segment, in the way's own direction or against it.
MakeEdge(f, fromNode, toNode, reverse) ==
    [ from |-> IF reverse THEN toNode.id ELSE fromNode.id,
      to |-> IF reverse THEN fromNode.id ELSE toNode.id,
      wayId |-> f.wayId,
      highway |-> f.highway,
      maxspeed |-> f.maxspeed,
      oneway |-> f.oneway,
      onewayBicycle |-> f.onewayBicycle,
      isReverse |-> reverse,
      distance |-> haversine(fromNode.lat, fromNode.lon, toNode.lat, toNode.lon),
      geometry |-> IF reverse
                   THEN << <<toNode.lat, toNode.lon>>, <<fromNode.lat, fromNode.lon>> >>
                   ELSE << <<fromNode.lat, fromNode.lon>>, <<toNode.lat, toNode.lon>> >>,
      access |-> f.access,
      motorVehicle |-> f.motorVehicle,
      vehicle |-> f.vehicle,
      bicycle |-> f.bicycle,
      foot |-> f.foot ]

\* adjacency.get(id).push(edge), creating the list when the key is new.
PushEdge(adjacency, id, edge) ==
    IF id \in DOMAIN adjacency
    THEN [adjacency EXCEPT ![id] = Append(@, edge)]
    ELSE adjacency @@ (id :> <<edge>>)

\* AddSegment with the reverse edge left out for a oneway way.
AddSegment_NoReverseOnOneway(allNodes, acc, way, j) ==
    LET fromId == way.nodeIds[j]
        toId == way.nodeIds[j + 1]
    IN  IF fromId \notin DOMAIN allNodes \/ toId \notin DOMAIN allNodes
        THEN acc
        ELSE LET f == WayFields(way)
                 fwd == MakeEdge(f, allNodes[fromId], allNodes[toId], FALSE)
                 rev == MakeEdge(f, allNodes[fromId], allNodes[toId], TRUE)
                 withFwd == PushEdge(acc.adjacency, fromId, fwd)
             IN  [ adjacency |-> IF f.oneway THEN withFwd
                                 ELSE PushEdge(withFwd, toId, rev),
                   referencedNodes |-> acc.referencedNodes \cup {fromId, toId} ]

\* The body of the segment loop for segment j of one way; acc holds the two
\* collections of step 2, adjacency and referencedNodes.
AddSegment(allNodes, acc, way, j) ==
    LET fromId == way.nodeIds[j]
        toId == way.nodeIds[j + 1]
    IN  IF fromId \notin DOMAIN allNodes \/ toId \notin DOMAIN allNodes
        THEN acc
        ELSE LET f == WayFields(way)
                 fwd == MakeEdge(f, allNodes[fromId], allNodes[toId], FALSE)
                 rev == MakeEdge(f, allNodes[fromId], allNodes[toId], TRUE)
             IN  [ adjacency |-> PushEdge(PushEdge(acc.adjacency, fromId, fwd), toId, rev),
                   referencedNodes |-> acc.referencedNodes \cup {fromId, toId} ]

RECURSIVE AddWay(_, _, _, _)
AddWay(allNodes, acc, way, j) ==
    IF j > Len(way.nodeIds) - 1 THEN acc
    ELSE AddWay(allNodes, AddSegment(allNodes, acc, way, j), way, j + 1)

RECURSIVE AddWays(_, _, _, _)
AddWays(allNodes, acc, ways, i) ==
    IF i > Len(ways) THEN acc
    ELSE IF ways[i].highway = undefined \/ ways[i].highway = ""
    THEN AddWays(allNodes, acc, ways, i + 1)
    ELSE AddWays(allNodes, AddWay(allNodes, acc, ways[i], 1), ways, i + 1)

\* Step 3: the restriction relations that name a from way, a via node and a to way.
RECURSIVE ParseRestrictions(_, _)
ParseRestrictions(relations, i) ==
    IF i > Len(relations) THEN <<>>
    ELSE LET r == relations[i]
             rest == ParseRestrictions(relations, i + 1)
         IN  IF r.type # "restriction" THEN rest
             ELSE IF r.restriction = undefined \/ r.restriction = "" THEN rest
             ELSE IF r.from # 0 /\ r.via # 0 /\ r.to # 0
             THEN << [fromWayId |-> r.from, viaNodeId |-> r.via,
                      toWayId |-> r.to, type |-> r.restriction] >> \o rest
             ELSE rest

\* FinalNodes with every parsed node kept, referenced or not.
FinalNodes_Unpruned(allNodes, referencedNodes) == allNodes

\* Step 4: the referenced nodes that allNodes holds.
RECURSIVE FinalNodes(_, _)
FinalNodes(allNodes, referencedNodes) ==
    IF referencedNodes = {} THEN <<>>
    ELSE LET id == CHOOSE x \in referencedNodes : TRUE
             rest == FinalNodes(allNodes, referencedNodes \ {id})
         IN  IF id \in DOMAIN allNodes THEN (id :> allNodes[id]) @@ rest ELSE rest

\* parseOSM on a map file, given as its node, way and relation elements.
parseOSM(xml) ==
    LET allNodes == ParseNodes(xml.nodeEls, 1, <<>>)
        step2 == AddWays(allNodes, [adjacency |-> <<>>, referencedNodes |-> {}],
                         xml.ways, 1)
    IN  [ nodes |-> FinalNodes(allNodes, step2.referencedNodes),
          adjacency |-> step2.adjacency,
          restrictions |-> ParseRestrictions(xml.relations, 1) ]


\* ------------------------------------------------------------------------
\* routing/a-star.ts: MinHeap.  items[i] of the source is items[i + 1] here.
\* ------------------------------------------------------------------------

Swap(items, i, j) == [items EXCEPT ![i + 1] = items[j + 1], ![j + 1] = items[i + 1]]

\* bubbleUp that leaves the new entry at the end of the array.
bubbleUp_Never(items, i) == items

RECURSIVE bubbleUp(_, _)
bubbleUp(items, i) ==
    IF i <= 0 THEN items
    ELSE LET parent == (i - 1) \div 2
         IN  IF items[i + 1].key >= items[parent + 1].key THEN items
             ELSE bubbleUp(Swap(items, i, parent), parent)

RECURSIVE sinkDown(_, _)
sinkDown(items, i) ==
    LET n == Len(items)
        left == 2 * i + 1
        right == 2 * i + 2
        s1 == IF left < n /\ items[left + 1].key < items[i + 1].key THEN left ELSE i
        smallest == IF right < n /\ items[right + 1].key < items[s1 + 1].key
                    THEN right ELSE s1
    IN  IF smallest = i THEN items
        ELSE sinkDown(Swap(items, i, smallest), smallest)

HeapPush(items, key, value) ==
    bubbleUp(Append(items, [key |-> key, value |-> value]), Len(items))

\* The items left by pop(); pop() returns HeapTop(items).
HeapPop(items) ==
    IF Len(items) = 0 THEN items
    ELSE LET last == items[Len(items)]
             rest == SubSeq(items, 1, Len(items) - 1)
         IN  IF Len(rest) > 0 THEN sinkDown([rest EXCEPT ![1] = last], 0)
             ELSE rest

HeapTop(items) == items[1].value


\* ------------------------------------------------------------------------
\* routing/a-star.ts: aStarRoute
\* ------------------------------------------------------------------------

\* Larger than every time the search can add up on the checked maps.
Infinity == 1000000000

\* r.type.startsWith('no_'), on the restriction types of the checked maps.
StartsWithNo(type) ==
    type \in {"no_left_turn", "no_right_turn", "no_straight_on", "no_u_turn",
              "no_entry", "no_exit"}

isRestricted(g, fromWayId, viaNodeId, toWayId) ==
    \E i \in 1..Len(g.restrictions) :
        LET r == g.restrictions[i]
        IN  /\ r.fromWayId = fromWayId
            /\ r.viaNodeId = viaNodeId
            /\ r.toWayId = toWayId
            /\ StartsWithNo(r.type)

\* haversine(node, endNode) / maxSpeedMs, times TimeScale / 3.6.
heuristic(g, b, m, nodeId) ==
    LET node == g.nodes[nodeId]
        endNode == g.nodes[b]
    IN  (haversine(node.lat, node.lon, endNode.lat, endNode.lon) * TimeScale)
            \div getMaxSpeed(m)

\* gScore.get(id) ?? Infinity
GScoreOf(gScore, id) == IF id \in DOMAIN gScore THEN gScore[id] ELSE Infinity

\* map.set(key, value)
MapSet(map, key, value) ==
    IF key \in DOMAIN map THEN [map EXCEPT ![key] = value] ELSE map @@ (key :> value)

\* The generator's frame before its first next().
NewSearch ==
    [ pc |-> "start", steps |-> <<>>, gScore |-> <<>>, cameFrom |-> <<>>,
      openSet |-> <<>>, closed |-> {}, currentId |-> 0, currentG |-> 0,
      currentWayId |-> 0, neighbors |-> <<>>, edgeIdx |-> 0 ]

\* BeginSearch with the test for start = end made before the look-up of the
\* two nodes.
BeginSearch_SameFirst(g, a, b, m, s) ==
    IF a = b
    THEN [s EXCEPT !.pc = "done",
                   !.steps = Append(@, [type |-> "done", path |-> <<>>,
                                        pathNodeIds |-> <<a>>, totalTime |-> 0])]
    ELSE IF b \notin DOMAIN g.nodes \/ a \notin DOMAIN g.nodes
    THEN [s EXCEPT !.pc = "done", !.steps = Append(@, [type |-> "no-route"])]
    ELSE [s EXCEPT !.pc = "loop",
                   !.gScore = MapSet(@, a, 0),
                   !.openSet = HeapPush(@, heuristic(g, b, m, a), a)]

\* BeginSearch with the start = end route listing both the start and the end.
BeginSearch_TwoIds(g, a, b, m, s) ==
    IF b \notin DOMAIN g.nodes \/ a \notin DOMAIN g.nodes
    THEN [s EXCEPT !.pc = "done", !.steps = Append(@, [type |-> "no-route"])]
    ELSE IF a = b
    THEN [s EXCEPT !.pc = "done",
                   !.steps = Append(@, [type |-> "done", path |-> <<>>,
                                        pathNodeIds |-> <<a, b>>, totalTime |-> 0])]
    ELSE [s EXCEPT !.pc = "loop",
                   !.gScore = MapSet(@, a, 0),
                   !.openSet = HeapPush(@, heuristic(g, b, m, a), a)]

\* Lines 469-493: the two early returns, else the set-up of the search.
BeginSearch(g, a, b, m, s) ==
    IF b \notin DOMAIN g.nodes \/ a \notin DOMAIN g.nodes
    THEN [s EXCEPT !.pc = "done", !.steps = Append(@, [type |-> "no-route"])]
    ELSE IF a = b
    THEN [s EXCEPT !.pc = "done",
                   !.steps = Append(@, [type |-> "done", path |-> <<>>,
                                        pathNodeIds |-> <<a>>, totalTime |-> 0])]
    ELSE [s EXCEPT !.pc = "loop",
                   !.gScore = MapSet(@, a, 0),
                   !.openSet = HeapPush(@, heuristic(g, b, m, a), a)]

\* The predecessor walk of lines 505-511: the edges and nodes in goal-to-start order.
RECURSIVE WalkBack(_, _)
WalkBack(cameFrom, cur) ==
    IF cur \notin DOMAIN cameFrom THEN [path |-> <<>>, pathNodeIds |-> <<>>]
    ELSE LET entry == cameFrom[cur]
             rest == WalkBack(cameFrom, entry.prevNodeId)
         IN  [ path |-> <<entry.edge>> \o rest.path,
               pathNodeIds |-> <<cur>> \o rest.pathNodeIds ]

Reverse(seq) == [i \in 1..Len(seq) |-> seq[Len(seq) + 1 - i]]

\* DoneStep with the two reverse() calls forgotten.
DoneStep_NotReversed(a, b, s) ==
    LET w == WalkBack(s.cameFrom, b)
    IN  [ type |-> "done",
          path |-> w.path,
          pathNodeIds |-> Append(w.pathNodeIds, a),
          totalTime |-> s.gScore[b] ]

\* Lines 501-517.
DoneStep(a, b, s) ==
    LET w == WalkBack(s.cameFrom, b)
    IN  [ type |-> "done",
          path |-> Reverse(w.path),
          pathNodeIds |-> Reverse(Append(w.pathNodeIds, a)),
          totalTime |-> s.gScore[b] ]

\* PopNode with the return after the 'done' step forgotten: the goal is expanded
\* like any other node and the loop goes on.
PopNode_NoReturn(g, a, b, s) ==
    LET currentId == HeapTop(s.openSet)
        popped == [s EXCEPT !.openSet = HeapPop(@)]
    IN  IF currentId \in s.closed THEN popped
        ELSE LET c0 == [popped EXCEPT !.closed = @ \cup {currentId}]
                 c == IF currentId = b
                      THEN [c0 EXCEPT !.steps = Append(@, DoneStep(a, b, c0))]
                      ELSE c0
                 entered ==
                     [c EXCEPT
                        !.currentId = currentId,
                        !.currentG = GScoreOf(c.gScore, currentId),
                        !.currentWayId =
                            IF currentId \in DOMAIN c.cameFrom
                            THEN c.cameFrom[currentId].edge.wayId ELSE 0]
             IN  IF currentId \notin DOMAIN g.adjacency
                    \/ Len(g.adjacency[currentId]) = 0
                 THEN entered
                 ELSE [entered EXCEPT !.pc = "edges",
                                      !.neighbors = g.adjacency[currentId],
                                      !.edgeIdx = 1]

\* PopNode with the test of the closed set forgotten: a node is expanded every
\* time it is popped.
PopNode_NoClosedCheck(g, a, b, s) ==
    LET currentId == HeapTop(s.openSet)
        popped == [s EXCEPT !.openSet = HeapPop(@)]
        c == [popped EXCEPT !.closed = @ \cup {currentId}]
    IN  IF currentId = b
        THEN [c EXCEPT !.pc = "done", !.steps = Append(@, DoneStep(a, b, c))]
        ELSE LET entered ==
                     [c EXCEPT
                        !.currentId = currentId,
                        !.currentG = GScoreOf(c.gScore, currentId),
                        !.currentWayId =
                            IF currentId \in DOMAIN c.cameFrom
                            THEN c.cameFrom[currentId].edge.wayId ELSE 0]
             IN  IF currentId \notin DOMAIN g.adjacency
                    \/ Len(g.adjacency[currentId]) = 0
                 THEN entered
                 ELSE [entered EXCEPT !.pc = "edges",
                                      !.neighbors = g.adjacency[currentId],
                                      !.edgeIdx = 1]

\* PopNode that looks at the top of the open set without taking it off when the
\* node is closed already.
PopNode_PeekWhenClosed(g, a, b, s) ==
    LET currentId == HeapTop(s.openSet)
        popped == [s EXCEPT !.openSet = HeapPop(@)]
    IN  IF currentId \in s.closed THEN s
        ELSE LET c == [popped EXCEPT !.closed = @ \cup {currentId}]
             IN  IF currentId = b
                 THEN [c EXCEPT !.pc = "done", !.steps = Append(@, DoneStep(a, b, c))]
                 ELSE LET entered ==
                              [c EXCEPT
                                 !.currentId = currentId,
                                 !.currentG = GScoreOf(c.gScore, currentId),
                                 !.currentWayId =
                                     IF currentId \in DOMAIN c.cameFrom
                                     THEN c.cameFrom[currentId].edge.wayId ELSE 0]
                      IN  IF currentId \notin DOMAIN g.adjacency
                             \/ Len(g.adjacency[currentId]) = 0
                          THEN entered
                          ELSE [entered EXCEPT !.pc = "edges",
                                               !.neighbors = g.adjacency[currentId],
                                               !.edgeIdx = 1]

\* Lines 496-524: one turn of the while loop up to the for loop.
PopNode(g, a, b, s) ==
    LET currentId == HeapTop(s.openSet)
        popped == [s EXCEPT !.openSet = HeapPop(@)]
    IN  IF currentId \in s.closed THEN popped
        ELSE LET c == [popped EXCEPT !.closed = @ \cup {currentId}]
             IN  IF currentId = b
                 THEN [c EXCEPT !.pc = "done", !.steps = Append(@, DoneStep(a, b, c))]
                 ELSE LET entered ==
                              [c EXCEPT
                                 !.currentId = currentId,
                                 !.currentG = GScoreOf(c.gScore, currentId),
                                 !.currentWayId =
                                     IF currentId \in DOMAIN c.cameFrom
                                     THEN c.cameFrom[currentId].edge.wayId ELSE 0]
                      IN  IF currentId \notin DOMAIN g.adjacency
                             \/ Len(g.adjacency[currentId]) = 0
                          THEN entered
                          ELSE [entered EXCEPT !.pc = "edges",
                                               !.neighbors = g.adjacency[currentId],
                                               !.edgeIdx = 1]

\* edge.from === currentId ? edge.to : edge.from
ToNodeId(edge, currentId) == IF edge.from = currentId THEN edge.to ELSE edge.from

\* TurnRejected with the test for the mode forgotten.
TurnRejected_AnyMode(g, m, ignore, currentWayId, currentId, edge) ==
    /\ currentWayId # 0
    /\ ~ignore
    /\ isRestricted(g, currentWayId, currentId, edge.wayId)

\* Lines 534-537: the turn from the way the node was reached by is forbidden.
TurnRejected(g, m, ignore, currentWayId, currentId, edge) ==
    /\ m = "car"
    /\ currentWayId # 0
    /\ ~ignore
    /\ isRestricted(g, currentWayId, currentId, edge.wayId)

\* BarrierRejected with the test of ignoreRestrictions the wrong way round.
BarrierRejected_Inverted(g, m, ignore, toNodeId) ==
    /\ ignore
    /\ toNodeId \in DOMAIN g.nodes
    /\ isBarrierBlocking(g.nodes[toNodeId], m)

\* Lines 539-543: the node the edge leads to carries a barrier blocking the mode.
BarrierRejected(g, m, ignore, toNodeId) ==
    /\ ~ignore
    /\ toNodeId \in DOMAIN g.nodes
    /\ isBarrierBlocking(g.nodes[toNodeId], m)

\* EdgePasses with the direction check forgotten.
EdgePasses_NoDirection(g, m, ignore, currentWayId, currentId, edge) ==
    /\ isEdgeAccessible(edge, m)
    /\ ~TurnRejected(g, m, ignore, currentWayId, currentId, edge)
    /\ ~BarrierRejected(g, m, ignore, ToNodeId(edge, currentId))

\* Lines 527-543: the edge survives the four checks.
EdgePasses(g, m, ignore, currentWayId, currentId, edge) ==
    /\ isEdgeAccessible(edge, m)
    /\ canTraverseDirection(edge, currentId, m, ignore)
    /\ ~TurnRejected(g, m, ignore, currentWayId, currentId, edge)
    /\ ~BarrierRejected(g, m, ignore, ToNodeId(edge, currentId))

\* Lines 547-553: the relaxation of the edge's target.
Relax(g, b, m, s, edge, toNodeId) ==
    LET tentativeG == s.currentG + getTravelTime(edge, m)
    IN  IF tentativeG < GScoreOf(s.gScore, toNodeId)
        THEN [s EXCEPT
                !.gScore = MapSet(@, toNodeId, tentativeG),
                !.cameFrom = MapSet(@, toNodeId,
                                    [prevNodeId |-> s.currentId, edge |-> edge,
                                     prevWayId |-> edge.wayId]),
                !.openSet = HeapPush(@, tentativeG + heuristic(g, b, m, toNodeId),
                                     toNodeId)]
        ELSE s

\* ExamineEdge with the two node ids of the 'explore' step exchanged.
ExamineEdge_SwappedEnds(g, b, m, ignore, s) ==
    LET edge == s.neighbors[s.edgeIdx]
        toNodeId == ToNodeId(edge, s.currentId)
        yielded == [s EXCEPT !.steps = Append(@, [type |-> "explore", edge |-> edge,
                                                  fromNodeId |-> toNodeId,
                                                  toNodeId |-> s.currentId])]
        after == IF EdgePasses(g, m, ignore, s.currentWayId, s.currentId, edge)
                 THEN Relax(g, b, m, yielded, edge, toNodeId)
                 ELSE s
    IN  IF s.edgeIdx < Len(s.neighbors)
        THEN [after EXCEPT !.edgeIdx = @ + 1]
        ELSE [after EXCEPT !.pc = "loop", !.edgeIdx = @ + 1]

\* Lines 526-554: one turn of the for loop over the current node's edges.
ExamineEdge(g, b, m, ignore, s) ==
    LET edge == s.neighbors[s.edgeIdx]
        toNodeId == ToNodeId(edge, s.currentId)
        yielded == [s EXCEPT !.steps = Append(@, [type |-> "explore", edge |-> edge,
                                                  fromNodeId |-> s.currentId,
                                                  toNodeId |-> toNodeId])]
        after == IF EdgePasses(g, m, ignore, s.currentWayId, s.currentId, edge)
                 THEN Relax(g, b, m, yielded, edge, toNodeId)
                 ELSE s
    IN  IF s.edgeIdx < Len(s.neighbors)
        THEN [after EXCEPT !.edgeIdx = @ + 1]
        ELSE [after EXCEPT !.pc = "loop", !.edgeIdx = @ + 1]

\* Line 557: the open set ran empty.
NoRoute(s) == [s EXCEPT !.pc = "done", !.steps = Append(@, [type |-> "no-route"])]

\* What the generator does from one point of the frame to the next.
AStarAdvance(g, a, b, m, ignore, s) ==
    CASE s.pc = "start" -> BeginSearch(g, a, b, m, s)
      [] s.pc = "loop" /\ Len(s.openSet) = 0 -> NoRoute(s)
      [] s.pc = "loop" /\ Len(s.openSet) > 0 -> PopNode(g, a, b, s)
      [] s.pc = "edges" -> ExamineEdge(g, b, m, ignore, s)
      [] OTHER -> s

\* The element of a set of one element: Only({e(x) : x \in {v}}) is e(x) for
\* x the value of v, computed once.
Only(S) == CHOOSE y \in S : TRUE

RECURSIVE Drive(_, _, _, _, _, _)
Drive(g, a, b, m, ignore, s) ==
    IF s.pc = "done" THEN s
    ELSE Only({ Drive(g, a, b, m, ignore, next) :
                  next \in {AStarAdvance(g, a, b, m, ignore, s)} })

\* The array steps and the value of finalPath that line 577 returns.
CompletionOf(steps) ==
    LET last == steps[Len(steps)]
    IN  [ steps |-> steps,
          finalPath |-> IF last.type = "done" THEN last.path ELSE "null" ]

\* Lines 560-578: the generator driven to its end.
runAStarToCompletion(g, a, b, m, ignore) ==
    Only({ CompletionOf(steps) :
             steps \in {Drive(g, a, b, m, ignore, NewSearch).steps} })


\* ------------------------------------------------------------------------
\* routing/map-matching.ts
\* ------------------------------------------------------------------------

\* The value null of a variable that holds an object.
nullObject == [null |-> TRUE]

Min(a, b) == IF a < b THEN a ELSE b

Max(a, b) == IF a > b THEN a ELSE b

\* projectPointOnSegment without line 178: t is not clamped to the segment.
projectPointOnSegment_Unclamped(px, py, ax, ay, bx, by) ==
    LET dx == bx - ax
        dy == by - ay
        lenSq == dx * dx + dy * dy
    IN  IF lenSq = 0
        THEN [x |-> ax, y |-> ay, t |-> <<0, 1>>]
        ELSE LET num == (px - ax) * dx + (py - ay) * dy
             IN  [ x |-> ax + (num * dx) \div lenSq,
                   y |-> ay + (num * dy) \div lenSq,
                   t |-> <<num, lenSq>> ]

\* The projection of (px, py) on the segment from (ax, ay) to (bx, by), clamped
\* to the segment.  t is the fraction t[1] / t[2]; the divisions are exact for
\* the points of the checked maps, which lie on one meridian.
projectPointOnSegment(px, py, ax, ay, bx, by) ==
    LET dx == bx - ax
        dy == by - ay
        lenSq == dx * dx + dy * dy
    IN  IF lenSq = 0
        THEN [x |-> ax, y |-> ay, t |-> <<0, 1>>]
        ELSE LET raw == (px - ax) * dx + (py - ay) * dy
                 num == Max(0, Min(lenSq, raw))
             IN  [ x |-> ax + (num * dx) \div lenSq,
                   y |-> ay + (num * dy) \div lenSq,
                   t |-> <<num, lenSq>> ]

\* The template string `${edge.wayId}-${edge.from}-${edge.to}`.
SnapKey(edge) == <<edge.wayId, edge.from, edge.to>>

\* Lines 205-218: the loop over the segments of one edge's geometry, from
\* segment i on; best holds bestDist, bestLat, bestLon and bestEdge.
RECURSIVE ProjectOnEdge(_, _, _, _, _)
ProjectOnEdge(best, lat, lon, edge, i) ==
    LET geo == edge.geometry
    IN  IF i > Len(geo) - 1 THEN best
        ELSE LET proj == projectPointOnSegment(lat, lon, geo[i][1], geo[i][2],
                                               geo[i + 1][1], geo[i + 1][2])
                 dist == haversine(lat, lon, proj.x, proj.y)
             IN  Only({ ProjectOnEdge(next, lat, lon, edge, i + 1) :
                          next \in { IF dist < best.bestDist
                                     THEN [best EXCEPT !.bestDist = dist,
                                                       !.bestLat = proj.x,
                                                       !.bestLon = proj.y,
                                                       !.bestEdge = edge]
                                     ELSE best } })

\* ScanEdge with the test of the mode's access forgotten.
ScanEdge_AnyEdge(scan, lat, lon, edge, m) ==
    IF SnapKey(edge) \in scan.seen THEN scan
    ELSE LET seen == [scan EXCEPT !.seen = @ \cup {SnapKey(edge)}]
         IN  [ProjectOnEdge(seen, lat, lon, edge, 1)
                 EXCEPT !.projected = Append(@, edge)]

\* Lines 198-218: the body of the loop over the edges.  projected lists the
\* edges whose geometry was projected on, in the order of the calls.
ScanEdge(scan, lat, lon, edge, m) ==
    IF SnapKey(edge) \in scan.seen THEN scan
    ELSE LET seen == [scan EXCEPT !.seen = @ \cup {SnapKey(edge)}]
         IN  IF ~isEdgeAccessible(edge, m) THEN seen
             ELSE [ProjectOnEdge(seen, lat, lon, edge, 1)
                      EXCEPT !.projected = Append(@, edge)]

RECURSIVE ScanEdges(_, _, _, _, _, _)
ScanEdges(scan, lat, lon, edges, i, m) ==
    IF i > Len(edges) THEN scan
    ELSE Only({ ScanEdges(next, lat, lon, edges, i + 1, m) :
                  next \in {ScanEdge(scan, lat, lon, edges[i], m)} })

\* graph.adjacency.values(): the edge lists in the order their keys were set.
RECURSIVE AdjacencyValues(_, _)
AdjacencyValues(g, k) ==
    IF k > Len(g.keys) THEN <<>>
    ELSE g.adjacency[g.keys[k]] \o AdjacencyValues(g, k + 1)

\* Lines 189-220: the variables of snapToRoad after its loops.
SnapScan(lat, lon, g, m) ==
    Only({ ScanEdges([ bestDist |-> Infinity, bestLat |-> 0, bestLon |-> 0,
                       bestEdge |-> nullObject, seen |-> {}, projected |-> <<>> ],
                     lat, lon, edges, 1, m) :
             edges \in {AdjacencyValues(g, 1)} })

\* Lines 222-234: what snapToRoad returns after its loops.
SnapResultOf(scan, g) ==
    LET bestEdge == scan.bestEdge
    IN  IF bestEdge = nullObject THEN nullObject
        ELSE LET distToFrom == haversine(scan.bestLat, scan.bestLon,
                                         g.nodes[bestEdge.from].lat,
                                         g.nodes[bestEdge.from].lon)
                 distToTo == haversine(scan.bestLat, scan.bestLon,
                                       g.nodes[bestEdge.to].lat,
                                       g.nodes[bestEdge.to].lon)
             IN  [ nodeId |-> IF distToFrom <= distToTo
                              THEN bestEdge.from ELSE bestEdge.to,
                   lat |-> scan.bestLat,
                   lon |-> scan.bestLon,
                   edge |-> bestEdge,
                   distanceToSnap |-> scan.bestDist ]

snapToRoad(lat, lon, g, m) ==
    Only({ SnapResultOf(scan, g) : scan \in {SnapScan(lat, lon, g, m)} })

\* Lines 252-265: the loop of findSnapSegment from segment i on (i counts from
\* 1 here, bestIdx from 0 as in the source).
RECURSIVE FindFrom(_, _, _, _, _)
FindFrom(best, snapLat, snapLon, geometry, i) ==
    IF i > Len(geometry) - 1 THEN best
    ELSE LET proj == projectPointOnSegment(snapLat, snapLon,
                                           geometry[i][1], geometry[i][2],
                                           geometry[i + 1][1], geometry[i + 1][2])
             dist == haversine(snapLat, snapLon, proj.x, proj.y)
         IN  Only({ FindFrom(next, snapLat, snapLon, geometry, i + 1) :
                      next \in { IF dist < best.bestDist
                                 THEN [bestDist |-> dist, bestIdx |-> i - 1,
                                       bestLat |-> proj.x, bestLon |-> proj.y]
                                 ELSE best } })

findSnapSegment(snapLat, snapLon, geometry) ==
    LET best == FindFrom([ bestDist |-> Infinity, bestIdx |-> 0,
                           bestLat |-> geometry[1][1], bestLon |-> geometry[1][2] ],
                         snapLat, snapLon, geometry, 1)
    IN  [segmentIndex |-> best.bestIdx, projLat |-> best.bestLat, projLon |-> best.bestLon]

\* The projected point, then the points after the snap segment.
FromSegment(geometry, seg) ==
    <<<<seg.projLat, seg.projLon>>>>
        \o SubSeq(geometry, seg.segmentIndex + 2, Len(geometry))

\* trimGeometryFromStart that keeps the edge's first point in front of the
\* projected point.
trimGeometryFromStart_KeepFirst(geometry, snapLat, snapLon) ==
    Only({ <<geometry[1]>> \o FromSegment(geometry, seg) :
             seg \in {findSnapSegment(snapLat, snapLon, geometry)} })

\* Lines 274-285.
trimGeometryFromStart(geometry, snapLat, snapLon) ==
    Only({ FromSegment(geometry, seg) :
             seg \in {findSnapSegment(snapLat, snapLon, geometry)} })

\* The points up to the start of the snap segment, then the projected point.
ToSegment(geometry, seg) ==
    Append(SubSeq(geometry, 1, seg.segmentIndex + 1), <<seg.projLat, seg.projLon>>)

\* Lines 292-304.
trimGeometryToEnd(geometry, snapLat, snapLon) ==
    Only({ ToSegment(geometry, seg) :
             seg \in {findSnapSegment(snapLat, snapLon, geometry)} })

\* CopyEdges without the copy: the result's edges are the objects of the path.
CopyEdges_SameObjects(h, path) == [heap |-> h, edges |-> path]

\* Line 320: path.map(e => ({ ...e, geometry: [...e.geometry] })).  h is the
\* heap of edge objects, path the references of the path's edges; the copies
\* are new objects behind the ones h holds.
CopyEdges(h, path) ==
    [ heap |-> h \o [i \in 1..Len(path) |-> h[path[i]]],
      edges |-> [i \in 1..Len(path) |-> Len(h) + i] ]

\* edges[i].geometry = geometry
SetGeometry(c, i, geometry) ==
    [c EXCEPT !.heap = [@ EXCEPT ![c.edges[i]].geometry = geometry]]

\* Lines 329-333: which of the two snap points comes first along geo.
OriginFirst(geo, originSeg, destSeg) ==
    \/ originSeg.segmentIndex < destSeg.segmentIndex
    \/ /\ originSeg.segmentIndex = destSeg.segmentIndex
       /\ haversine(geo[originSeg.segmentIndex + 1][1],
                    geo[originSeg.segmentIndex + 1][2],
                    originSeg.projLat, originSeg.projLon)
            <= haversine(geo[destSeg.segmentIndex + 1][1],
                         geo[destSeg.segmentIndex + 1][2],
                         destSeg.projLat, destSeg.projLon)

\* Lines 335-341: geo trimmed from its start at the snap point first and to
\* its end at the snap point second.
TrimBetween(geo, first, second) ==
    Only({ trimGeometryToEnd(cut, second.lat, second.lon) :
             cut \in {trimGeometryFromStart(geo, first.lat, first.lon)} })

\* Lines 322-341: the geometry of the edge of a path of one edge.
TrimSingle(geo, originSnap, destinationSnap) ==
    Only({ IF OriginFirst(geo, originSeg, destSeg)
           THEN TrimBetween(geo, originSnap, destinationSnap)
           ELSE TrimBetween(geo, destinationSnap, originSnap) :
             originSeg \in {findSnapSegment(originSnap.lat, originSnap.lon, geo)},
             destSeg \in {findSnapSegment(destinationSnap.lat, destinationSnap.lon,
                                          geo)} })

\* Lines 343-350: the geometry of the first edge of a longer path.
TrimFirst(first, originSnap) ==
    IF originSnap.nodeId = first.from
    THEN trimGeometryFromStart(first.geometry, originSnap.lat, originSnap.lon)
    ELSE trimGeometryToEnd(first.geometry, originSnap.lat, originSnap.lon)

\* Lines 352-360: the geometry of the last edge of a longer path.
TrimLast(last, destinationSnap) ==
    IF destinationSnap.nodeId = last.to
    THEN trimGeometryToEnd(last.geometry, destinationSnap.lat, destinationSnap.lon)
    ELSE trimGeometryFromStart(last.geometry, destinationSnap.lat, destinationSnap.lon)

\* Lines 322-361 on the copies c.
TrimCopies(c, originSnap, destinationSnap) ==
    IF Len(c.edges) = 1
    THEN Only({ SetGeometry(c, 1, trimmedGeo) :
                  trimmedGeo \in {TrimSingle(c.heap[c.edges[1]].geometry,
                                             originSnap, destinationSnap)} })
    ELSE Only({ Only({ SetGeometry(c1, Len(c1.edges), lastGeo) :
                         lastGeo \in {TrimLast(c1.heap[c1.edges[Len(c1.edges)]],
                                               destinationSnap)} }) :
                  c1 \in { Only({ SetGeometry(c, 1, firstGeo) :
                                    firstGeo \in {TrimFirst(c.heap[c.edges[1]],
                                                            originSnap)} }) } })

\* trimRouteToSnapPoints on the heap h: the heap after the call and the
\* references of the edges of the returned route.
trimRouteToSnapPoints(h, path, originSnap, destinationSnap) ==
    IF Len(path) = 0 THEN [heap |-> h, edges |-> <<>>]
    ELSE Only({ TrimCopies(c, originSnap, destinationSnap) :
                  c \in {CopyEdges(h, path)} })

\* ------------------------------------------------------------------------
\* The checked maps and queries
\* ------------------------------------------------------------------------

\* Four nodes on one meridian: node id |-> latitude, in latitude steps.
NodeLat == <<2, 5, 0, 6>>

NodeIds == 1..Len(NodeLat)

\* The node pairs a way can join, in the order the ways stand in the map file.
Slots == << <<1, 2>>, <<1, 3>>, <<3, 2>>, <<2, 4>>, <<1, 4>>, <<3, 4>> >>

WayTags(highway, maxspeed, oneway) ==
    [ highway |-> highway, maxspeed |-> maxspeed, oneway |-> oneway,
      onewayBicycle |-> undefined, access |-> undefined,
      motorVehicle |-> undefined, vehicle |-> undefined, bicycle |-> undefined,
      foot |-> undefined ]

\* The tag sets a way can carry: a residential street (two-way, every mode, at
\* its default speed), a motorway signed 120 (cars only) and a one-way primary
\* road signed 50.
WayKinds ==
    << WayTags("residential", undefined, undefined),
       WayTags("motorway", "120", undefined),
       WayTags("primary", "50", "yes") >>

WayIdOfSlot(i) == 100 * i

\* The way elements of a map: slot i carries a way of kind kindOf[i], or none (0).
RECURSIVE WaysFrom(_, _)
WaysFrom(kindOf, i) ==
    IF i > Len(Slots) THEN <<>>
    ELSE IF kindOf[i] = 0 THEN WaysFrom(kindOf, i + 1)
    ELSE << WayKinds[kindOf[i]] @@ [id |-> WayIdOfSlot(i), nodeIds |-> Slots[i]] >>
         \o WaysFrom(kindOf, i + 1)

NoExtra == [kind |-> "none"]

BarrierExtra(node, barrier) == [kind |-> "barrier", node |-> node, barrier |-> barrier]

RestrictionExtra(fromSlot, via, toSlot, type) ==
    [ kind |-> "restriction",
      relation |-> [type |-> "restriction", restriction |-> type,
                    from |-> WayIdOfSlot(fromSlot), via |-> via,
                    to |-> WayIdOfSlot(toSlot)] ]

\* What a map holds besides its ways: nothing, one barrier tag on a node, or one
\* turn restriction through node 2.
Extras ==
    {NoExtra}
    \cup {BarrierExtra(2, "bollard"), BarrierExtra(2, "block"),
          BarrierExtra(4, "bollard"), BarrierExtra(2, "gate")}
    \cup {RestrictionExtra(1, 2, 4, "no_straight_on"),
          RestrictionExtra(3, 2, 4, "no_left_turn"),
          RestrictionExtra(1, 2, 3, "no_right_turn"),
          RestrictionExtra(1, 2, 4, "only_straight_on")}

\* The decimal text of a number, as it stands in an attribute.
TextOf(n) == CHOOSE t \in DOMAIN NumberTexts : NumberTexts[t] = n

\* The node element with the given id.
NodeElOf(id, extra) ==
    [ id |-> TextOf(id), lat |-> TextOf(NodeLat[id]), lon |-> TextOf(0),
      barrier |-> IF extra.kind = "barrier" /\ extra.node = id
                  THEN extra.barrier ELSE undefined ]

\* The node elements of the map, in the order of their ids.
RECURSIVE NodeElsUpTo(_, _)
NodeElsUpTo(n, extra) ==
    IF n = 0 THEN <<>> ELSE Append(NodeElsUpTo(n - 1, extra), NodeElOf(n, extra))

NodeElsOf(extra) == NodeElsUpTo(Len(NodeLat), extra)

RelationsOf(extra) == IF extra.kind = "restriction" THEN <<extra.relation>> ELSE <<>>

\* The map file with the ways kindOf and the extra.
MapFile(kindOf, extra) ==
    [ nodeEls |-> NodeElsOf(extra), ways |-> WaysFrom(kindOf, 1),
      relations |-> RelationsOf(extra) ]

MapGraph(kindOf, extra) == parseOSM(MapFile(kindOf, extra))

\* The (start, end) pairs asked for.  Node 4 can carry a barrier and, like node
\* 1, is no node of the graph when no way of the map touches it.
Queries == {<<1, 4>>, <<4, 4>>}

\* ------------------------------------------------------------------------
\* The search as a state machine
\* ------------------------------------------------------------------------

\* The module state of main.ts before anything has happened.
NoMain ==
    /\ origin = nullObject
    /\ destination = nullObject
    /\ clickState = "origin"
    /\ markers = [origin |-> FALSE, destination |-> FALSE]
    /\ animating = FALSE
    /\ loading = <<>>
    /\ route = nullObject
    /\ heap = <<>>
    /\ finalPath = <<>>
    /\ trimmed = nullObject
    /\ snapCall = nullObject
    /\ searches = <<>>
    /\ selected = nullObject

\* The search is run on its own: no application state around it.
NoApplication ==
    /\ NoMain
    /\ animator = nullObject
    /\ minHeap = nullObject

Init ==
    \E kindOf \in [1..Len(Slots) -> 0..Len(WayKinds)] :
    \E extra \in Extras :
    \E q \in Queries :
        /\ Cardinality({i \in 1..Len(Slots) : kindOf[i] # 0}) <= MaxWays
        /\ filename = [family |-> "roads", kindOf |-> kindOf, extra |-> extra]
        /\ graph = MapGraph(kindOf, extra)
        /\ startNodeId = q[1]
        /\ endNodeId = q[2]
        /\ mode \in RoutingMode
        /\ ignoreRestrictions \in BOOLEAN
        /\ search = NewSearch
        /\ NoApplication

Inputs == <<filename, graph, startNodeId, endNodeId, mode, ignoreRestrictions,
            origin, destination, clickState, markers, animating, loading, route,
            heap, finalPath, trimmed, snapCall, searches, selected, animator, minHeap>>

\* The first next(): the code before the while loop.
Start ==
    /\ search.pc = "start"
    /\ search' = BeginSearch(graph, startNodeId, endNodeId, mode, search)
    /\ UNCHANGED Inputs

\* The while loop takes the next node off the open set.
Pop ==
    /\ search.pc = "loop"
    /\ Len(search.openSet) > 0
    /\ search' = PopNode(graph, startNodeId, endNodeId, search)
    /\ UNCHANGED Inputs

\* The for loop looks at the next edge of the current node.
Examine ==
    /\ search.pc = "edges"
    /\ search' = ExamineEdge(graph, endNodeId, mode, ignoreRestrictions, search)
    /\ UNCHANGED Inputs

\* The while loop ends with the open set empty.
Exhausted ==
    /\ search.pc = "loop"
    /\ Len(search.openSet) = 0
    /\ search' = NoRoute(search)
    /\ UNCHANGED Inputs

Next == Start \/ Pop \/ Examine \/ Exhausted

Spec == Init /\ [][Next]_vars


\* The searches for a car, the mode whose travel speed follows the maxspeed
\* tag, so that a node can come back on the open set after it was closed.
CarInit == Init /\ mode = "car" /\ ~ignoreRestrictions

\* runAStarToCompletion's for loop asks the generator for its next step until it
\* has returned: a step that can be taken is taken.
FairSpec == CarInit /\ [][Next]_vars /\ WF_vars(Next)

\* ------------------------------------------------------------------------
\* The search on maps of one way that carries access and direction tags
\* ------------------------------------------------------------------------

\* Highway values: open to every mode, to cars only, to bicycles and
\* pedestrians, to pedestrians only, to no mode, and one the table does not list.
TagHighways == {"residential", "motorway", "cycleway", "footway", "busway", "proposed"}

\* What an access tag can hold: nothing (the tag is absent), a denying value of
\* either kind, or a value that is not in DENY_VALUES.
TagValues == {undefined, "no", "private", "destination"}

\* The GraphEdge fields that hold the five access tags.
OverrideTags == {"access", "motorVehicle", "vehicle", "bicycle", "foot"}

\* The way element 100 from node 1 to node 2 with the given tags.
TagWay(highway, oneway, onewayBicycle, tags) ==
    [ id |-> WayIdOfSlot(1), nodeIds |-> Slots[1],
      highway |-> highway, maxspeed |-> undefined, oneway |-> oneway,
      onewayBicycle |-> onewayBicycle, access |-> tags["access"],
      motorVehicle |-> tags["motorVehicle"], vehicle |-> tags["vehicle"],
      bicycle |-> tags["bicycle"], foot |-> tags["foot"] ]

\* The map file with that way alone.
TagFile(highway, oneway, onewayBicycle, tags) ==
    [ nodeEls |-> NodeElsOf(NoExtra),
      ways |-> << TagWay(highway, oneway, onewayBicycle, tags) >>,
      relations |-> <<>> ]

\* Along the way and against it.
TagQueries == {<<1, 2>>, <<2, 1>>}

TagInit ==
    \E highway \in TagHighways :
    \E oneway \in {undefined, "yes"} :
    \E onewayBicycle \in {undefined, "no"} :
    \E tags \in [OverrideTags -> TagValues] :
    \E q \in TagQueries :
        /\ Cardinality({t \in OverrideTags : tags[t] # undefined}) <= MaxTags
        /\ filename = [family |-> "tags", highway |-> highway, oneway |-> oneway,
                       onewayBicycle |-> onewayBicycle, tags |-> tags]
        /\ graph = parseOSM(TagFile(highway, oneway, onewayBicycle, tags))
        /\ startNodeId = q[1]
        /\ endNodeId = q[2]
        /\ mode \in RoutingMode
        /\ ignoreRestrictions \in BOOLEAN
        /\ search = NewSearch
        /\ NoApplication

TagSpec == TagInit /\ [][Next]_vars


\* ------------------------------------------------------------------------
\* The parser on maps with a doubtful node element and doubtful references
\* ------------------------------------------------------------------------

\* Attribute values that are no decimal text: empty, absent and non-numeric.
BadTexts == {"", null, "x"}

NodeEl(id, lat, lon) == [id |-> id, lat |-> lat, lon |-> lon, barrier |-> undefined]

\* The element of node 4, as it should be or with one attribute spoilt.
SuspectEls ==
    {NodeElOf(4, NoExtra)}
    \cup {NodeEl(t, TextOf(NodeLat[4]), TextOf(0)) : t \in BadTexts}
    \cup {NodeEl(TextOf(4), t, TextOf(0)) : t \in BadTexts}
    \cup {NodeEl(TextOf(4), TextOf(NodeLat[4]), t) : t \in BadTexts}

\* What the ref attribute of an nd element of way 100 can hold: the id of a
\* node that way 300 does not touch, of one it touches, of the suspect node,
\* nothing (the attribute is absent), or no number.
RefTexts == {"1", "2", "4", null, "x"}

RefSeqs == UNION {[1..n -> RefTexts] : n \in 2..MaxRefs}

\* The map file: the elements of nodes 1 to 3 and the suspect element, way 100
\* over the given references, the residential way 300 from node 3 to node 2,
\* and one restriction from way 300 through node 2 into way 100.
NodeFile(suspect, refs, highway, oneway) ==
    [ nodeEls |-> Append(SubSeq(NodeElsOf(NoExtra), 1, 3), suspect),
      ways |-> << WayTags(highway, undefined, oneway)
                      @@ [id |-> WayIdOfSlot(1), nodeIds |-> NodeIdsOfRefs(refs)],
                  WayKinds[1] @@ [id |-> WayIdOfSlot(3), nodeIds |-> Slots[3]] >>,
      relations |-> << RestrictionExtra(3, 2, 1, "no_left_turn").relation >> ]

NodeQueries == {<<1, 3>>, <<1, 4>>}

ParseInit ==
    \E suspect \in SuspectEls :
    \E refs \in RefSeqs :
    \E highway \in {"residential", undefined} :
    \E oneway \in {undefined, "yes"} :
    \E q \in NodeQueries :
        /\ filename = [family |-> "nodes", suspect |-> suspect, refs |-> refs,
                       highway |-> highway, oneway |-> oneway]
        /\ graph = parseOSM(NodeFile(suspect, refs, highway, oneway))
        /\ startNodeId = q[1]
        /\ endNodeId = q[2]
        /\ mode = "car"
        /\ ignoreRestrictions = FALSE
        /\ search = NewSearch
        /\ NoApplication

ParseSpec == ParseInit /\ [][Next]_vars

\* fetch: the elements of the map file that was loaded.
FileText(f) ==
    CASE f.family = "roads" -> MapFile(f.kindOf, f.extra)
      [] f.family = "tags" -> TagFile(f.highway, f.oneway, f.onewayBicycle, f.tags)
      [] f.family = "nodes" -> NodeFile(f.suspect, f.refs, f.highway, f.oneway)

xmlText == FileText(filename)


\* ------------------------------------------------------------------------
\* main.ts: the application
\* ------------------------------------------------------------------------

\* The keys of the adjacency Map in the order parseOSM sets them (graph.ts,
\* lines 149 and 171): a Map is walked in the order its keys were first set.
AppendNew(keys, id) ==
    IF \E k \in 1..Len(keys) : keys[k] = id THEN keys ELSE Append(keys, id)

RECURSIVE KeysOfWay(_, _, _, _)
KeysOfWay(allNodes, keys, way, j) ==
    IF j > Len(way.nodeIds) - 1 THEN keys
    ELSE LET fromId == way.nodeIds[j]
             toId == way.nodeIds[j + 1]
         IN  KeysOfWay(allNodes,
                       IF fromId \notin DOMAIN allNodes \/ toId \notin DOMAIN allNodes
                       THEN keys
                       ELSE AppendNew(AppendNew(keys, fromId), toId),
                       way, j + 1)

RECURSIVE KeysOfWays(_, _, _, _)
KeysOfWays(allNodes, keys, ways, i) ==
    IF i > Len(ways) THEN keys
    ELSE IF ways[i].highway = undefined \/ ways[i].highway = ""
    THEN KeysOfWays(allNodes, keys, ways, i + 1)
    ELSE KeysOfWays(allNodes, KeysOfWay(allNodes, keys, ways[i], 1), ways, i + 1)

\* Line 134: graph = parseOSM(xmlText), the adjacency Map with its key order.
LoadedGraph(xml) ==
    LET g == parseOSM(xml)
    IN  [ nodes |-> g.nodes, adjacency |-> g.adjacency, restrictions |-> g.restrictions,
          keys |-> KeysOfWays(ParseNodes(xml.nodeEls, 1, <<>>), <<>>, xml.ways, 1) ]

\* The application state as one value: the module variables of main.ts, the
\* renderer's two markers, the animator's animationId (animating) and the
\* locals of the calculateRoute call of the handler that ran last (route: the
\* arguments of the search; heap, path, trimmed: the edge objects of
\* finalPath and of the trimmed route).
AppState ==
    [ graph |-> graph, filename |-> filename, origin |-> origin,
      destination |-> destination, mode |-> mode, clickState |-> clickState,
      ignoreRestrictions |-> ignoreRestrictions, markers |-> markers,
      animating |-> animating, route |-> route, heap |-> heap,
      finalPath |-> finalPath,
      trimmed |-> trimmed, searches |-> searches, selected |-> selected ]

\* A handler starts with no calculateRoute call of its own.
Entered(a) ==
    [a EXCEPT !.route = nullObject, !.heap = <<>>, !.finalPath = <<>>,
              !.trimmed = nullObject, !.searches = <<>>]

\* The state a handler leaves behind.
Commit(a) ==
    /\ graph' = a.graph
    /\ filename' = a.filename
    /\ origin' = a.origin
    /\ destination' = a.destination
    /\ mode' = a.mode
    /\ clickState' = a.clickState
    /\ ignoreRestrictions' = a.ignoreRestrictions
    /\ markers' = a.markers
    /\ animating' = a.animating
    /\ route' = a.route
    /\ heap' = a.heap
    /\ finalPath' = a.finalPath
    /\ trimmed' = a.trimmed
    /\ searches' = a.searches
    /\ selected' = a.selected
    /\ UNCHANGED <<startNodeId, endNodeId, search, snapCall, animator, minHeap>>

\* Lines 289-301: the route was found; it is trimmed and the animation starts.
ShowRoute(called, r) ==
    LET refs == [i \in 1..Len(r.finalPath) |-> i]
    IN  Only({ [called EXCEPT !.heap = t.heap, !.finalPath = refs,
                              !.trimmed = [edges |-> t.edges],
                              !.animating = TRUE] :
                 t \in {trimRouteToSnapPoints(r.finalPath, refs, called.origin,
                                              called.destination)} })

\* The arguments of the search that calculateRoute runs in the state a, and
\* whether it found a route.
SearchRun(a, found) ==
    [ origin |-> a.origin, destination |-> a.destination, mode |-> a.mode,
      ignoreRestrictions |-> a.ignoreRestrictions, found |-> found ]

\* Lines 275-287: the search has returned r.
AfterSearch(reset, r) ==
    LET found == r.steps[Len(r.steps)].type = "done"
    IN  Only({ IF ~found THEN called ELSE ShowRoute(called, r) :
                 called \in { [reset EXCEPT
                                 !.route = SearchRun(reset, found),
                                 !.searches = Append(@, SearchRun(reset, found))] } })

\* Lines 264-314.
calculateRoute(a) ==
    IF a.graph = nullObject \/ a.origin = nullObject \/ a.destination = nullObject
    THEN a
    ELSE IF a.origin.nodeId = a.destination.nodeId
    THEN [a EXCEPT !.animating = FALSE]
    ELSE Only({ AfterSearch([a EXCEPT !.animating = FALSE], r) :
                  r \in {runAStarToCompletion(a.graph, a.origin.nodeId,
                                              a.destination.nodeId, a.mode,
                                              a.ignoreRestrictions)} })

\* Lines 164-182: the click was snapped to snap.
ClickSnapped(a, snap) ==
    IF snap = nullObject THEN a
    ELSE IF a.clickState = "origin"
    THEN [a EXCEPT !.origin = snap, !.destination = nullObject,
                   !.animating = FALSE,
                   !.markers = [origin |-> TRUE, destination |-> FALSE],
                   !.clickState = "destination"]
    ELSE Only({ calculateRoute(set) :
                  set \in { [a EXCEPT !.destination = snap,
                                      !.markers.destination = TRUE,
                                      !.clickState = "origin"] } })

\* handleMapClick without line 161.
handleMapClick_WhileRunning(a, lat, lon) ==
    IF a.graph = nullObject THEN a
    ELSE Only({ ClickSnapped(a, snap) :
                  snap \in {snapToRoad(lat, lon, a.graph, a.mode)} })

\* Lines 159-183.
handleMapClick(a, lat, lon) ==
    IF a.graph = nullObject \/ a.animating THEN a
    ELSE Only({ ClickSnapped(a, snap) :
                  snap \in {snapToRoad(lat, lon, a.graph, a.mode)} })

\* Lines 214-219.
RouteOrReset(a) ==
    IF a.origin # nullObject /\ a.destination # nullObject
    THEN calculateRoute(a)
    ELSE [a EXCEPT !.animating = FALSE]

\* Lines 192-202.
ResnapOrigin(a) ==
    IF a.origin = nullObject THEN a
    ELSE Only({ IF resnap # nullObject
                THEN [a EXCEPT !.origin = resnap,
                               !.markers = [origin |-> TRUE, destination |-> FALSE]]
                ELSE [a EXCEPT !.origin = nullObject,
                               !.markers = [origin |-> FALSE, destination |-> FALSE]] :
                  resnap \in {snapToRoad(a.origin.lat, a.origin.lon, a.graph, a.mode)} })

\* Lines 204-212.
ResnapDestination(a) ==
    IF a.destination = nullObject THEN a
    ELSE Only({ IF resnap # nullObject
                THEN [a EXCEPT !.destination = resnap, !.markers.destination = TRUE]
                ELSE [a EXCEPT !.destination = nullObject] :
                  resnap \in {snapToRoad(a.destination.lat, a.destination.lon,
                                         a.graph, a.mode)} })

\* changeMode that keeps the two snap results as they are.
changeMode_KeepSnaps(a, m) ==
    IF a.graph = nullObject THEN [a EXCEPT !.mode = m]
    ELSE Only({ RouteOrReset(set) : set \in {[a EXCEPT !.mode = m]} })

\* Lines 186-220.
changeMode(a, m) ==
    IF a.graph = nullObject THEN [a EXCEPT !.mode = m]
    ELSE Only({ RouteOrReset(a3) :
                  a3 \in { Only({ ResnapDestination(a2) :
                                    a2 \in {ResnapOrigin([a EXCEPT !.mode = m])} }) } })

\* Lines 40-45.
onIgnoreRestrictionsToggle(a, ignore) ==
    IF a.origin # nullObject /\ a.destination # nullObject
    THEN Only({ calculateRoute(set) :
                  set \in {[a EXCEPT !.ignoreRestrictions = ignore]} })
    ELSE [a EXCEPT !.ignoreRestrictions = ignore]

\* SettingsPanel.setActiveMode(m), which a click on a mode button runs before
\* it calls changeMode, with the check box left as it is.
setActiveMode_KeepCheckbox(a, m) == a

\* SettingsPanel.setActiveMode(m): outside car mode updateIgnoreRestrictionsState
\* disables the check box, unchecks it and calls onIgnoreRestrictionsToggle(false).
setActiveMode(a, m) ==
    IF m = "car" THEN a ELSE onIgnoreRestrictionsToggle(a, FALSE)

\* Lines 228-240: the end of the drag was snapped to snap.
OriginSnapped(a, snap) ==
    IF snap = nullObject
    THEN IF a.origin # nullObject THEN [a EXCEPT !.markers.origin = TRUE] ELSE a
    ELSE IF a.destination # nullObject
    THEN Only({ calculateRoute(set) :
                  set \in {[a EXCEPT !.origin = snap, !.markers.origin = TRUE]} })
    ELSE [a EXCEPT !.origin = snap, !.markers.origin = TRUE]

\* Lines 223-241.
handleOriginDrag(a, lat, lon) ==
    IF a.graph = nullObject \/ a.animating THEN a
    ELSE Only({ OriginSnapped(a, snap) :
                  snap \in {snapToRoad(lat, lon, a.graph, a.mode)} })

\* Lines 248-260: the end of the drag was snapped to snap.
DestinationSnapped(a, snap) ==
    IF snap = nullObject
    THEN IF a.destination # nullObject
         THEN [a EXCEPT !.markers.destination = TRUE] ELSE a
    ELSE IF a.origin # nullObject
    THEN Only({ calculateRoute(set) :
                  set \in { [a EXCEPT !.destination = snap,
                                      !.markers.destination = TRUE] } })
    ELSE [a EXCEPT !.destination = snap, !.markers.destination = TRUE]

\* Lines 243-261.
handleDestinationDrag(a, lat, lon) ==
    IF a.graph = nullObject \/ a.animating THEN a
    ELSE Only({ DestinationSnapped(a, snap) :
                  snap \in {snapToRoad(lat, lon, a.graph, a.mode)} })

\* The latitudes a click or the end of a drag can have, in latitude steps on
\* the meridian of the nodes.
ClickLats == {1, 4, 6}

\* The map files the settings panel offers.
RoadsFile(kindOf) == [family |-> "roads", kindOf |-> kindOf, extra |-> NoExtra]

\* a one-way primary road from node 1 to 2 with two residential streets, a
\* motorway beside two residential streets, and a motorway alone.
MapFiles ==
    { RoadsFile(<<3, 1, 0, 1, 0, 0>>),
      RoadsFile(<<1, 2, 0, 1, 0, 0>>),
      RoadsFile(<<0, 2, 0, 0, 0, 0>>) }

\* The state after the module is loaded (lines 15-20), no map selected yet.
AppInit ==
    /\ graph = nullObject
    /\ filename = nullObject
    /\ origin = nullObject
    /\ destination = nullObject
    /\ mode = "car"
    /\ clickState = "origin"
    /\ ignoreRestrictions = FALSE
    /\ markers = [origin |-> FALSE, destination |-> FALSE]
    /\ animating = FALSE
    /\ loading = <<>>
    /\ route = nullObject
    /\ heap = <<>>
    /\ finalPath = <<>>
    /\ trimmed = nullObject
    /\ snapCall = nullObject
    /\ searches = <<>>
    /\ selected = nullObject
    /\ animator = nullObject
    /\ minHeap = nullObject
    /\ startNodeId = 0
    /\ endNodeId = 0
    /\ search = NewSearch

Remove(seq, i) == SubSeq(seq, 1, i - 1) \o SubSeq(seq, i + 1, Len(seq))

\* A map file is selected while fewer than n loadMap calls are under way:
\* loadMap up to its first await, a fetch is under way.
SelectMapFile(n) ==
    \E f \in MapFiles :
        /\ Len(loading) < n
        /\ loading' = Append(loading, [filename |-> f, pc |-> "fetch"])
        /\ \E a \in {[Entered(AppState) EXCEPT !.selected = f]} : Commit(a)

LoadMapBegin == SelectMapFile(MaxLoads)

\* The fetch fails and loadMap ends in its catch clause.
LoadMapFail ==
    \E i \in 1..Len(loading) :
        /\ loading[i].pc = "fetch"
        /\ loading' = Remove(loading, i)
        /\ \E a \in {Entered(AppState)} : Commit(a)

\* Lines 134-137, between two awaits.
LoadMapParse ==
    \E i \in 1..Len(loading) :
        /\ loading[i].pc = "fetch"
        /\ loading' = [loading EXCEPT ![i].pc = "render"]
        /\ \E g \in {LoadedGraph(FileText(loading[i].filename))} :
           \E a \in {[Entered(AppState) EXCEPT !.graph = g,
                                               !.filename = loading[i].filename,
                                               !.origin = nullObject,
                                               !.destination = nullObject,
                                               !.clickState = "origin"]} :
               Commit(a)

\* Lines 142-150, after the last await.
LoadMapRender ==
    \E i \in 1..Len(loading) :
        /\ loading[i].pc = "render"
        /\ loading' = Remove(loading, i)
        /\ \E a \in {[Entered(AppState) EXCEPT
                         !.animating = FALSE,
                         !.markers = [origin |-> FALSE, destination |-> FALSE]]} :
               Commit(a)

\* A click on the map at (lat, 0).
MapClickAt(lat) ==
    /\ \E a0 \in {Entered(AppState)} :
       \E a \in {handleMapClick(a0, lat, 0)} : Commit(a)
    /\ UNCHANGED loading

HandleMapClick == \E lat \in ClickLats : MapClickAt(lat)

\* A click on a mode button: setActiveMode(m), then onRoutingModeChange(m).
ChangeMode ==
    \E m \in RoutingMode :
        /\ \E a0 \in {Entered(AppState)} :
           \E a1 \in {setActiveMode(a0, m)} :
           \E a \in {changeMode(a1, m)} : Commit(a)
        /\ UNCHANGED loading

\* The origin marker, which is on the map, is dragged to (lat, 0).
OriginDragTo(lat) ==
    /\ markers.origin
    /\ \E a0 \in {Entered(AppState)} :
       \E a \in {handleOriginDrag(a0, lat, 0)} : Commit(a)
    /\ UNCHANGED loading

HandleOriginDrag == \E lat \in ClickLats : OriginDragTo(lat)

\* The destination marker, which is on the map, is dragged to (lat, 0).
DestinationDragTo(lat) ==
    /\ markers.destination
    /\ \E a0 \in {Entered(AppState)} :
       \E a \in {handleDestinationDrag(a0, lat, 0)} : Commit(a)
    /\ UNCHANGED loading

HandleDestinationDrag == \E lat \in ClickLats : DestinationDragTo(lat)

\* A change of the check box, which is enabled in car mode only.
ToggleIgnoreRestrictions ==
    /\ mode = "car"
    /\ \E a0 \in {Entered(AppState)} :
       \E a \in {onIgnoreRestrictionsToggle(a0, ~ignoreRestrictions)} : Commit(a)
    /\ UNCHANGED loading

\* The animator's tick reaches the last step and stops.
AnimationCompletes ==
    /\ animating
    /\ animating' = FALSE
    /\ UNCHANGED <<filename, graph, startNodeId, endNodeId, mode, ignoreRestrictions,
                   search, origin, destination, clickState, markers, loading, route,
                   heap, finalPath, trimmed, snapCall, searches, selected,
                   animator, minHeap>>

AppNext ==
    \/ LoadMapBegin
    \/ LoadMapFail
    \/ LoadMapParse
    \/ LoadMapRender
    \/ HandleMapClick
    \/ ChangeMode
    \/ HandleOriginDrag
    \/ HandleDestinationDrag
    \/ ToggleIgnoreRestrictions
    \/ AnimationCompletes

AppSpec == AppInit /\ [][AppNext]_vars

\* ------------------------------------------------------------------------
\* Overlapping loadMap calls whose downloads all complete
\* ------------------------------------------------------------------------

\* A second or a third file is selected before the loads before it have ended.
LoadMapOverlapping == SelectMapFile(MaxOverlap)

LoadNext == LoadMapOverlapping \/ LoadMapParse \/ LoadMapRender

LoadSpec == AppInit /\ [][LoadNext]_vars

\* ------------------------------------------------------------------------
\* snapToRoad on its own
\* ------------------------------------------------------------------------

\* The latitudes of the query points, in latitude steps: from below the
\* southernmost node to above the northernmost.
SnapLats == -1..7

\* A map of at most MaxWays ways has been parsed and a mode chosen; snapToRoad
\* has not been called.
SnapInit ==
    \E kindOf \in [1..Len(Slots) -> 0..Len(WayKinds)] :
        /\ Cardinality({i \in 1..Len(Slots) : kindOf[i] # 0}) <= MaxWays
        /\ filename = RoadsFile(kindOf)
        /\ graph = LoadedGraph(FileText(RoadsFile(kindOf)))
        /\ mode \in RoutingMode
        /\ ignoreRestrictions = FALSE
        /\ startNodeId = 0
        /\ endNodeId = 0
        /\ search = NewSearch
        /\ NoApplication

\* One call snapToRoad(lat, 0, graph, mode), from its first line to its return.
SnapToRoad ==
    \E lat \in SnapLats :
        /\ snapCall = nullObject
        /\ \E scan \in {SnapScan(lat, 0, graph, mode)} :
               snapCall' = [ lat |-> lat, lon |-> 0, projected |-> scan.projected,
                             result |-> SnapResultOf(scan, graph) ]
        /\ UNCHANGED <<filename, graph, startNodeId, endNodeId, mode,
                       ignoreRestrictions, search, origin, destination, clickState,
                       markers, animating, loading, route, heap, finalPath, trimmed,
                       searches, selected, animator, minHeap>>

SnapSpec == SnapInit /\ [][SnapToRoad]_vars

\* ------------------------------------------------------------------------
\* A MinHeap on its own, under any sequence of push and pop
\* ------------------------------------------------------------------------

\* The keys pushed: a few numbers, so that equal keys occur.
HeapKeys == 0..2

\* No map, no search: what is not the heap's.
NoSearch ==
    /\ filename = nullObject
    /\ graph = nullObject
    /\ startNodeId = 0
    /\ endNodeId = 0
    /\ mode = "car"
    /\ ignoreRestrictions = FALSE
    /\ search = NewSearch

\* What pop() returns on items: undefined, or the value of items[0], noted
\* with the key it was stored under.
Returned(items) ==
    IF Len(items) = 0 THEN [defined |-> FALSE]
    ELSE [defined |-> TRUE, value |-> HeapTop(items), key |-> items[1].key]

\* new MinHeap(): items is empty.  pushes and pops count the calls, returned
\* counts the pops that returned an entry, call and result are the last call
\* and what it returned (a push returns nothing), before is items as that call found it.
HeapInit ==
    /\ minHeap = [ items |-> <<>>, pushes |-> 0, pops |-> 0, returned |-> 0,
                   call |-> "new", result |-> Returned(<<>>), before |-> <<>> ]
    /\ animator = nullObject
    /\ NoMain
    /\ NoSearch

NotTheHeap == <<filename, graph, startNodeId, endNodeId, mode, ignoreRestrictions,
                search, origin, destination, clickState, markers, animating,
                loading, route, heap, finalPath, trimmed, snapCall, searches,
                selected, animator>>

\* push(key, value); the value is the number of the push.
MinHeapPush ==
    \E key \in HeapKeys :
        /\ minHeap.pushes < MaxPushes
        /\ minHeap' = [ items |-> HeapPush(minHeap.items, key, minHeap.pushes + 1),
                        pushes |-> minHeap.pushes + 1,
                        pops |-> minHeap.pops,
                        returned |-> minHeap.returned,
                        call |-> "push", result |-> Returned(<<>>),
                        before |-> minHeap.items ]
        /\ UNCHANGED NotTheHeap

\* pop(): undefined on an empty heap, else the value of items[0].
MinHeapPop ==
    /\ minHeap.pops < MaxPushes + 1
    /\ minHeap' = [ items |-> HeapPop(minHeap.items),
                    pushes |-> minHeap.pushes,
                    pops |-> minHeap.pops + 1,
                    returned |-> IF Len(minHeap.items) = 0 THEN minHeap.returned
                                 ELSE minHeap.returned + 1,
                    call |-> "pop",
                    result |-> Returned(minHeap.items),
                    before |-> minHeap.items ]
    /\ UNCHANGED NotTheHeap

HeapNext == MinHeapPush \/ MinHeapPop

HeapSpec == HeapInit /\ [][HeapNext]_vars

\* ------------------------------------------------------------------------
\* animation/animator.ts: an Animator on its own
\* ------------------------------------------------------------------------

\* `${edge.wayId}-${a}-${b}` with a the smaller and b the larger of the edge's
\* two node ids: the three numbers, which the text determines and is
\* determined by for the ids of the checked maps.
edgeKey(edge) == <<edge.wayId, Min(edge.from, edge.to), Max(edge.from, edge.to)>>

\* new Animator(renderer), lines 22-32.  animationId 0 stands for null: the
\* ids of requestAnimationFrame are not zero.  onComplete is the number of the
\* start call that passed the callback, 0 for null.  Beside the fields:
\* frames is the set of frame requests the browser holds, nextFrame the id the
\* next request gets, runs the number of start calls that took effect,
\* completed the onComplete callbacks invoked (by the number of their start
\* call) each with whether the steps had been run through, halted the runs that stop, reset
\* or loadSteps was called on while they were running, finalPath the argument
\* of the last loadSteps, progress the stats that emitProgress passed last.
NewAnimator ==
    [ steps |-> <<>>, pathEdgeSet |-> {}, currentIndex |-> 0, animationId |-> 0,
      speed |-> 5, onComplete |-> 0, exploredCount |-> 0, routeCount |-> 0,
      frames |-> {}, nextFrame |-> 1, runs |-> 0, completed |-> <<>>,
      halted |-> {}, finalPath |-> <<>>,
      progress |-> [exploredEdges |-> 0, routeEdges |-> 0, totalSteps |-> 0] ]

\* Lines 70-75.
stop(an) ==
    IF an.animationId # 0
    THEN [an EXCEPT !.frames = @ \ {an.animationId}, !.animationId = 0]
    ELSE an

\* The public methods that stop the animator note the run they interrupt.
Halting(an) ==
    IF an.animationId # 0 THEN [an EXCEPT !.halted = @ \cup {an.onComplete}] ELSE an

\* Lines 36-51.
loadSteps(an, steps, path) ==
    [stop(an) EXCEPT !.steps = steps,
                     !.currentIndex = 0,
                     !.exploredCount = 0,
                     !.routeCount = 0,
                     !.pathEdgeSet = {edgeKey(path[i]) : i \in 1..Len(path)},
                     !.finalPath = path]

\* Lines 53-55.
setSpeed(an, speed) == [an EXCEPT !.speed = Max(1, Min(10, speed))]

\* Lines 77-83.
reset(an) ==
    [stop(an) EXCEPT !.currentIndex = 0, !.exploredCount = 0, !.routeCount = 0]

\* Lines 85-87.
isRunning(an) == an.animationId # 0

\* Lines 141-147; start always passes an onProgress callback here.
emitProgress(an) ==
    [an EXCEPT !.progress = [exploredEdges |-> an.exploredCount,
                             routeEdges |-> an.routeCount,
                             totalSteps |-> Len(an.steps)]]

\* Lines 149-155.
getStepsPerFrame(an) ==
    IF an.speed <= 1 THEN 2
    ELSE IF an.speed <= 3 THEN an.speed * 4
    ELSE IF an.speed <= 6 THEN an.speed * 10
    ELSE 2 ^ an.speed

\* Lines 157-161.
getInterval(an) == IF an.speed <= 1 THEN 100 ELSE 0

\* this.animationId = requestAnimationFrame(this.tick)
RequestFrame(an) ==
    [an EXCEPT !.animationId = an.nextFrame,
               !.frames = @ \cup {an.nextFrame},
               !.nextFrame = @ + 1]

\* The step processed last was 'done' or 'no-route', or no step is left.
AtEnd(an) ==
    \/ an.currentIndex >= Len(an.steps)
    \/ /\ an.currentIndex > 0
       /\ an.steps[an.currentIndex].type \in {"done", "no-route"}

\* this.stop(); this.onComplete?.()
StopAndComplete(an) ==
    Only({ IF s.onComplete = 0 THEN s
           ELSE [s EXCEPT !.completed =
                              Append(@, [run |-> s.onComplete,
                                         reached |-> AtEnd(s)])] :
           s \in {stop(an)} })

\* Lines 111-121: an 'explore' step.
ExploreStep(an, step) ==
    [an EXCEPT !.exploredCount = @ + 1,
               !.routeCount = IF edgeKey(step.edge) \in an.pathEdgeSet
                              THEN @ + 1 ELSE @]

\* Lines 106-128: the while loop; returned tells that the loop ended with the
\* return of line 126.
RECURSIVE ProcessSteps(_, _)
ProcessSteps(an, processed) ==
    IF processed < getStepsPerFrame(an) /\ an.currentIndex < Len(an.steps)
    THEN LET step == an.steps[an.currentIndex + 1]
             taken == [an EXCEPT !.currentIndex = @ + 1]
         IN  IF step.type = "explore"
             THEN ProcessSteps(ExploreStep(taken, step), processed + 1)
             ELSE [an |-> StopAndComplete(emitProgress(taken)), returned |-> TRUE]
    ELSE [an |-> an, returned |-> FALSE]

\* Lines 130-138.
AfterLoop(an) ==
    IF an.currentIndex >= Len(an.steps)
    THEN StopAndComplete(emitProgress(an))
    ELSE RequestFrame(emitProgress(an))

\* Lines 89-139.  due is elapsed >= interval: the two times are read from the
\* clock, and with an interval of 0 the test cannot fail.
tick(an, due) ==
    IF ~due /\ getInterval(an) > 0 THEN RequestFrame(an)
    ELSE Only({ IF r.returned THEN r.an ELSE AfterLoop(r.an) :
                r \in {ProcessSteps(an, 0)} })

\* start that does not look at animationId.
start_Always(an, due) ==
    tick(emitProgress([an EXCEPT !.onComplete = an.runs + 1, !.runs = @ + 1]), due)

\* Lines 61-68.
start(an, due) ==
    IF an.animationId # 0 THEN an
    ELSE tick(emitProgress([an EXCEPT !.onComplete = an.runs + 1,
                                      !.runs = @ + 1]), due)

\* The speeds the slider of the settings panel is set to.
Speeds == {1, 2}

\* The searches whose steps are animated: a map of the panel, a mode, two
\* different nodes.
AnimatorInit ==
    \E f \in MapFiles :
    \E q \in NodeIds \X NodeIds :
        /\ q[1] # q[2]
        /\ filename = f
        /\ graph = LoadedGraph(FileText(f))
        /\ startNodeId = q[1]
        /\ endNodeId = q[2]
        /\ mode \in RoutingMode
        /\ ignoreRestrictions = FALSE
        /\ search = Drive(graph, startNodeId, endNodeId, mode, FALSE, NewSearch)
        /\ animator = NewAnimator
        /\ minHeap = nullObject
        /\ NoMain

NotTheAnimator == <<filename, graph, startNodeId, endNodeId, mode,
                    ignoreRestrictions, search, origin, destination, clickState,
                    markers, animating, loading, route, heap, finalPath, trimmed,
                    snapCall, searches, selected, minHeap>>

\* animator.loadSteps(steps, finalPath) with the result of the search, which
\* found a route.
LoadSteps ==
    /\ search.steps[Len(search.steps)].type = "done"
    /\ animator' = loadSteps(Halting(animator), search.steps,
                             CompletionOf(search.steps).finalPath)
    /\ UNCHANGED NotTheAnimator

\* animator.start(onComplete, onProgress)
StartAnimator ==
    \E due \in BOOLEAN :
        /\ animator.runs < MaxRuns
        /\ animator.nextFrame <= MaxFrames
        /\ animator' = start(animator, due)
        /\ UNCHANGED NotTheAnimator

\* animator.stop()
StopAnimator ==
    /\ animator' = stop(Halting(animator))
    /\ UNCHANGED NotTheAnimator

\* animator.reset()
ResetAnimator ==
    /\ animator' = reset(Halting(animator))
    /\ UNCHANGED NotTheAnimator

\* animator.setSpeed(speed)
SetSpeed ==
    \E speed \in Speeds :
        /\ animator' = setSpeed(animator, speed)
        /\ UNCHANGED NotTheAnimator

\* The browser runs a frame callback it holds: tick.
Frame ==
    \E id \in animator.frames :
    \E due \in BOOLEAN :
        /\ animator.nextFrame <= MaxFrames
        /\ animator' = tick([animator EXCEPT !.frames = @ \ {id}], due)
        /\ UNCHANGED NotTheAnimator

AnimatorNext ==
    \/ LoadSteps
    \/ StartAnimator
    \/ StopAnimator
    \/ ResetAnimator
    \/ SetSpeed
    \/ Frame

AnimatorSpec == AnimatorInit /\ [][AnimatorNext]_vars

\* ------------------------------------------------------------------------
\* trimRouteToSnapPoints on its own, on paths built by hand
\* ------------------------------------------------------------------------

\* makeEdge of map-matching.test.ts.
makeEdge(from, to, wayId, geometry) ==
    [ from |-> from, to |-> to, wayId |-> wayId, highway |-> "residential",
      maxspeed |-> 30, oneway |-> FALSE, onewayBicycle |-> FALSE,
      isReverse |-> FALSE, distance |-> 100, geometry |-> geometry ]

\* makeSnap of map-matching.test.ts.
makeSnap(nodeId, lat, lon, edge) ==
    [nodeId |-> nodeId, lat |-> lat, lon |-> lon, edge |-> edge, distanceToSnap |-> 0]

\* The latitudes of the points of a geometry and of the snap points.
TrimLats == 0..3

\* The geometries of an edge: two or three points of one meridian, each
\* farther along than the one before.
Polylines ==
    { << <<t[1], 0>>, <<t[2], 0>> >> :
        t \in { u \in TrimLats \X TrimLats : u[1] # u[2] } }
    \cup { << <<t[1], 0>>, <<t[2], 0>>, <<t[3], 0>> >> :
             t \in { u \in TrimLats \X TrimLats \X TrimLats :
                       \/ u[1] < u[2] /\ u[2] < u[3]
                       \/ u[1] > u[2] /\ u[2] > u[3] } }

\* The geometries of the edges of a path of n edges: each edge starts where
\* the one before it ends.
PathGeometries(n) ==
    { gs \in [1..n -> Polylines] :
        \A i \in 1..(n - 1) : gs[i][Len(gs[i])] = gs[i + 1][1] }

\* The edges of the path with the geometries gs, from node 1 through node n + 1.
PathEdges(gs) == [i \in 1..Len(gs) |-> makeEdge(i, i + 1, 100 * i, gs[i])]

\* A path of at most MaxEdges edges and two snap results stand ready;
\* trimRouteToSnapPoints has not been called.  The snap results of an empty
\* path name an edge that is not on it.
TrimInit ==
    \E n \in 0..MaxEdges :
    \E gs \in PathGeometries(n) :
    \E olat \in TrimLats, dlat \in TrimLats, oend \in {0, 1}, dend \in {0, 1} :
        LET edges == IF n = 0
                     THEN <<makeEdge(1, 2, 100, << <<0, 0>>, <<3, 0>> >>)>>
                     ELSE PathEdges(gs)
            last == Len(edges)
        IN  /\ heap = PathEdges(gs)
            /\ finalPath = [i \in 1..n |-> i]
            /\ origin = makeSnap(1 + oend, olat, 0, edges[1])
            /\ destination = makeSnap(last + dend, dlat, 0, edges[last])
            /\ trimmed = nullObject
            /\ graph = nullObject
            /\ filename = nullObject
            /\ mode = "car"
            /\ ignoreRestrictions = FALSE
            /\ startNodeId = 0
            /\ endNodeId = 0
            /\ search = NewSearch
            /\ clickState = "origin"
            /\ markers = [origin |-> FALSE, destination |-> FALSE]
            /\ animating = FALSE
            /\ loading = <<>>
            /\ route = nullObject
            /\ snapCall = nullObject
            /\ searches = <<>>
            /\ selected = nullObject
            /\ animator = nullObject
            /\ minHeap = nullObject

\* One call trimRouteToSnapPoints(path, origin, destination).
Trim ==
    /\ trimmed = nullObject
    /\ \E t \in {trimRouteToSnapPoints(heap, finalPath, origin, destination)} :
           /\ heap' = t.heap
           /\ trimmed' = [edges |-> t.edges]
    /\ UNCHANGED <<filename, graph, startNodeId, endNodeId, mode, ignoreRestrictions,
                   search, origin, destination, clickState, markers, animating,
                   loading, route, finalPath, snapCall, searches, selected,
                   animator, minHeap>>

TrimSpec == TrimInit /\ [][Trim]_vars


\* ------------------------------------------------------------------------
\* Vocabulary of the properties
\* ------------------------------------------------------------------------

Finished == search.pc = "done"

Steps == search.steps

LastStep == Steps[Len(Steps)]

FoundRoute == Finished /\ LastStep.type = "done"

\* Every directed edge of a graph, list after list in the order of the node ids.
RECURSIVE EdgeSeqFrom(_, _)
EdgeSeqFrom(g, ids) ==
    IF ids = {} THEN <<>>
    ELSE LET n == CHOOSE x \in ids : \A y \in ids : x <= y
         IN  g.adjacency[n] \o EdgeSeqFrom(g, ids \ {n})

EdgeSeq(g) == EdgeSeqFrom(g, DOMAIN g.adjacency)

EdgesOf(g) == {EdgeSeq(g)[i] : i \in 1..Len(EdgeSeq(g))}

RECURSIVE PathTime(_, _)
PathTime(path, m) ==
    IF Len(path) = 0 THEN 0
    ELSE getTravelTime(Head(path), m) + PathTime(Tail(path), m)

\* An edge a route may use: open to the mode, in a legal direction, and leading
\* to a node that no barrier closes.
LegalEdge(g, m, ignore, e) ==
    /\ isEdgeAccessible(e, m)
    /\ canTraverseDirection(e, e.from, m, ignore)
    /\ ~(~ignore /\ isBarrierBlocking(g.nodes[e.to], m))

\* Edge f may follow edge e on a route.
LegalTurn(g, m, ignore, e, f) ==
    /\ e.to = f.from
    /\ ~(m = "car" /\ ~ignore /\ isRestricted(g, e.wayId, e.to, f.wayId))

\* With prev[j] the least time of a legal walk from the start that ends with
\* edge L[j] (Infinity: none known), the least time of one that ends with f
\* after some L[j], j at or after the given one, or acc if that is less.
RECURSIVE LeastInto(_, _, _, _, _, _, _, _)
LeastInto(g, m, ignore, L, prev, f, j, acc) ==
    IF j > Len(L) THEN acc
    ELSE LET c == IF prev[j] < Infinity /\ LegalTurn(g, m, ignore, L[j], f)
                  THEN prev[j] + getTravelTime(f, m) ELSE Infinity
         IN  LeastInto(g, m, ignore, L, prev, f, j + 1, IF c < acc THEN c ELSE acc)

\* One round of relaxation over the first i edges of L.
RECURSIVE RelaxRound(_, _, _, _, _, _)
RelaxRound(g, m, ignore, L, prev, i) ==
    IF i = 0 THEN <<>>
    ELSE Append(RelaxRound(g, m, ignore, L, prev, i - 1),
                LeastInto(g, m, ignore, L, prev, L[i], 1, prev[i]))

\* Rounds of relaxation until nothing improves.
RECURSIVE RelaxToFixpoint(_, _, _, _, _)
RelaxToFixpoint(g, m, ignore, L, prev) ==
    LET nxt == RelaxRound(g, m, ignore, L, prev, Len(L))
    IN  IF nxt = prev THEN prev ELSE RelaxToFixpoint(g, m, ignore, L, nxt)

RECURSIVE FirstLegs(_, _, _, _)
FirstLegs(L, a, m, i) ==
    IF i = 0 THEN <<>>
    ELSE Append(FirstLegs(L, a, m, i - 1),
                IF L[i].from = a THEN getTravelTime(L[i], m) ELSE Infinity)

RECURSIVE LeastEndingAt(_, _, _, _, _)
LeastEndingAt(L, best, b, j, acc) ==
    IF j > Len(L) THEN acc
    ELSE LeastEndingAt(L, best, b, j + 1,
                       IF L[j].to = b /\ best[j] < acc THEN best[j] ELSE acc)

\* The least total travel time of a legal walk from a to b (Infinity: none).
MinLegalTime(g, a, b, m, ignore) ==
    IF a \notin DOMAIN g.nodes \/ b \notin DOMAIN g.nodes THEN Infinity
    ELSE IF a = b THEN 0
    ELSE LET L == SelectSeq(EdgeSeq(g), LAMBDA e : LegalEdge(g, m, ignore, e))
             best == RelaxToFixpoint(g, m, ignore, L, FirstLegs(L, a, m, Len(L)))
         IN  LeastEndingAt(L, best, b, 1, Infinity)

\* ------------------------------------------------------------------------
\* Claims
\* ------------------------------------------------------------------------

\* C1: the steps the generator has produced are 'explore' steps, except that
\* the last one is a terminal step ('done' or 'no-route') exactly when the
\* generator has returned; so there is one terminal step and it is the last.
C1_OneTerminalStepLast ==
    /\ \A i \in 1..(Len(Steps) - 1) : Steps[i].type = "explore"
    /\ Finished => (Len(Steps) >= 1 /\ LastStep.type \in {"done", "no-route"})
    /\ ~Finished => \A i \in 1..Len(Steps) : Steps[i].type = "explore"

\* A search that explored several edges and then returned with 'done'.
C1_Witness ==
    /\ FoundRoute
    /\ Len(Steps) >= 4
    /\ Steps[1].type = "explore"

\* C2: when the search yields 'done', its totalTime is the least total travel
\* time of any legal route from start to end for the mode.
C2_TotalTimeIsMinimum ==
    FoundRoute =>
        LastStep.totalTime
            = MinLegalTime(graph, startNodeId, endNodeId, mode, ignoreRestrictions)

\* C3: the search yields 'no-route' exactly when no legal walk leads from start
\* to end; whenever such a walk exists it yields 'done'.
C3_NoRouteIffUnreachable ==
    Finished =>
        (LastStep.type = "no-route"
            <=> MinLegalTime(graph, startNodeId, endNodeId, mode,
                             ignoreRestrictions) = Infinity)

\* C4: in a 'done' step for start # end the path is a chain of edges from the
\* start to the end, and pathNodeIds lists the start and then each edge's to.
C4_PathIsChain ==
    (FoundRoute /\ startNodeId # endNodeId) =>
        LET path == LastStep.path
            ids == LastStep.pathNodeIds
        IN  /\ Len(path) >= 1
            /\ path[1].from = startNodeId
            /\ path[Len(path)].to = endNodeId
            /\ \A i \in 1..(Len(path) - 1) : path[i].to = path[i + 1].from
            /\ Len(ids) = Len(path) + 1
            /\ ids[1] = startNodeId
            /\ \A i \in 1..Len(path) : ids[i + 1] = path[i].to

\* A route of three edges.
C4_Witness == FoundRoute /\ Len(LastStep.path) >= 3

\* C5: for a car that honours restrictions, no two consecutive edges of the path
\* of a 'done' step make a turn that a no_* restriction forbids.
C5_NoForbiddenTurnInPath ==
    (FoundRoute /\ mode = "car" /\ ~ignoreRestrictions) =>
        \A i \in 1..(Len(LastStep.path) - 1) :
            ~isRestricted(graph, LastStep.path[i].wayId, LastStep.path[i].to,
                          LastStep.path[i + 1].wayId)

\* The graph with every barrier tag taken off its nodes.
WithoutBarriers(g) ==
    [g EXCEPT !.nodes = [n \in DOMAIN g.nodes |-> [g.nodes[n] EXCEPT !.barrier = undefined]]]

\* C6: unless restrictions are ignored, no node of a route but its start carries
\* a barrier blocking the mode, and a goal that carries one yields 'no-route';
\* for a pedestrian, or with restrictions ignored, the steps are those of the
\* same search on the map without its barrier tags.
C6_BarriersRespected ==
    Finished =>
        /\ (FoundRoute /\ ~ignoreRestrictions) =>
                \A i \in 2..Len(LastStep.pathNodeIds) :
                    ~isBarrierBlocking(graph.nodes[LastStep.pathNodeIds[i]], mode)
        /\ ( /\ ~ignoreRestrictions
             /\ startNodeId # endNodeId
             /\ endNodeId \in DOMAIN graph.nodes
             /\ isBarrierBlocking(graph.nodes[endNodeId], mode) )
                => LastStep.type = "no-route"
        /\ (mode = "pedestrian" \/ ignoreRestrictions) =>
                Steps = runAStarToCompletion(WithoutBarriers(graph), startNodeId,
                                             endNodeId, mode, ignoreRestrictions).steps

\* A car found a route although an edge out of the start leads to a node with a
\* barrier that blocks cars.
C6_Witness ==
    /\ FoundRoute
    /\ mode = "car"
    /\ ~ignoreRestrictions
    /\ \E i \in 1..Len(graph.adjacency[startNodeId]) :
           isBarrierBlocking(graph.nodes[graph.adjacency[startNodeId][i].to], mode)

\* C7: the for loop yields an 'explore' step for the edge it looks at exactly
\* when the edge is accessible, may be traversed in its direction, does not make
\* a turn that a no_* restriction forbids from the way the node was reached by
\* (car, restrictions honoured) and does not lead to a node with a blocking
\* barrier (restrictions honoured); no other code yields an 'explore' step.
C7_ExploreIffChecksPass ==
    [][ IF search.pc = "edges"
        THEN LET edge == search.neighbors[search.edgeIdx]
                 from == search.currentId
                 to == IF edge.from = from THEN edge.to ELSE edge.from
                 forbidden ==
                     /\ mode = "car"
                     /\ ~ignoreRestrictions
                     /\ from \in DOMAIN search.cameFrom
                     /\ isRestricted(graph, search.cameFrom[from].edge.wayId, from,
                                     edge.wayId)
                 blocked == ~ignoreRestrictions /\ isBarrierBlocking(graph.nodes[to], mode)
                 passes ==
                     /\ isEdgeAccessible(edge, mode)
                     /\ canTraverseDirection(edge, from, mode, ignoreRestrictions)
                     /\ ~forbidden
                     /\ ~blocked
             IN  search'.steps =
                     IF passes
                     THEN Append(search.steps, [type |-> "explore", edge |-> edge,
                                                fromNodeId |-> from, toNodeId |-> to])
                     ELSE search.steps
        ELSE \/ search'.steps = search.steps
             \/ /\ Len(search'.steps) = Len(search.steps) + 1
                /\ search'.steps[Len(search'.steps)].type # "explore"
      ]_vars

\* In the middle of one node's edges, some were yielded and some were passed over.
C7_Witness ==
    LET yielded == {i \in 1..Len(Steps) : /\ Steps[i].type = "explore"
                                          /\ Steps[i].fromNodeId = search.currentId}
    IN  /\ search.pc = "edges"
        /\ yielded # {}
        /\ Cardinality(yielded) < search.edgeIdx - 1

\* C8: the totalTime of a 'done' step is the sum of getTravelTime over the edges
\* of that step's path.
C8_TotalTimeIsPathSum ==
    FoundRoute => LastStep.totalTime = PathTime(LastStep.path, mode)

\* C9: no edge is travelled faster than the speed the heuristic assumes for the
\* mode: getTravelSpeed(edge, mode) <= getMaxSpeed(mode).
C9_SpeedWithinHeuristicMax ==
    \A e \in EdgesOf(graph) : getTravelSpeed(e, mode) <= getMaxSpeed(mode)

\* The graph with only the restrictions that satisfy keep.
WithRestrictions(g, keep(_)) == [g EXCEPT !.restrictions = SelectSeq(@, keep)]

\* C10: for a bicycle, a pedestrian or a car that ignores restrictions the steps
\* are those of the same search on the map without its restrictions; in every
\* mode they are those of the search on the map without the restrictions whose
\* type does not start with 'no_'.
C10_RestrictionsOnlyForCars ==
    Finished =>
        /\ (mode # "car" \/ ignoreRestrictions) =>
                Steps = runAStarToCompletion(WithRestrictions(graph, LAMBDA r : FALSE),
                                             startNodeId, endNodeId, mode,
                                             ignoreRestrictions).steps
        /\ Steps = runAStarToCompletion(
                       WithRestrictions(graph, LAMBDA r : StartsWithNo(r.type)),
                       startNodeId, endNodeId, mode, ignoreRestrictions).steps

\* A bicycle's route makes the turn that a no_* restriction forbids.
C10_Witness ==
    /\ FoundRoute
    /\ mode = "bicycle"
    /\ \E i \in 1..(Len(LastStep.path) - 1) :
           isRestricted(graph, LastStep.path[i].wayId, LastStep.path[i].to,
                        LastStep.path[i + 1].wayId)

\* C11: when the start id or the end id is no key of graph.nodes, the generator
\* yields nothing but one 'no-route' step: after its first next() it has
\* returned with exactly that step, and it never yields an 'explore' step.
C11_UnknownEndpointNoRoute ==
    (startNodeId \notin DOMAIN graph.nodes \/ endNodeId \notin DOMAIN graph.nodes) =>
        \/ search.pc = "start" /\ Steps = <<>>
        \/ Finished /\ Steps = << [type |-> "no-route"] >>

\* The search returned on a map that has the end node but not the start node.
C11_Witness ==
    /\ Finished
    /\ startNodeId \notin DOMAIN graph.nodes
    /\ endNodeId \in DOMAIN graph.nodes
    /\ Steps = << [type |-> "no-route"] >>

\* C12: when start equals end and the node is in the graph, the generator
\* yields exactly one step, 'done' with an empty path, pathNodeIds = [start]
\* and totalTime 0, whatever the mode, the barriers and the restrictions.
C12_SameNodeDoneAtOnce ==
    (startNodeId = endNodeId /\ startNodeId \in DOMAIN graph.nodes) =>
        \/ search.pc = "start" /\ Steps = <<>>
        \/ /\ Finished
           /\ Steps = << [type |-> "done", path |-> <<>>,
                          pathNodeIds |-> <<startNodeId>>, totalTime |-> 0] >>

\* A car that honours restrictions asked for the route from a node with a
\* bollard to itself.
C12_Witness ==
    /\ Finished
    /\ startNodeId = endNodeId
    /\ startNodeId \in DOMAIN graph.nodes
    /\ mode = "car"
    /\ ~ignoreRestrictions
    /\ isBarrierBlocking(graph.nodes[startNodeId], mode)
    /\ LastStep.type = "done"

\* The first edge out of the start node, if the start has one.
StartHasEdge ==
    /\ startNodeId \in DOMAIN graph.adjacency
    /\ Len(graph.adjacency[startNodeId]) > 0

StartEdge == graph.adjacency[startNodeId][1]

\* C13: for a car and a oneway edge, canTraverseDirection is false against the
\* way's direction when restrictions are honoured and true when they are
\* ignored; a car is never rejected on an edge in the way's direction.  So a
\* car that honours restrictions gets 'no-route' when the only way out of the
\* start is a oneway way against its direction.
C13_CarOnewayDirection ==
    /\ \A e \in EdgesOf(graph) : \A n \in {e.from, e.to} :
          /\ (e.oneway /\ e.isReverse) => ~canTraverseDirection(e, n, "car", FALSE)
          /\ e.oneway => canTraverseDirection(e, n, "car", TRUE)
          /\ ~e.isReverse => \A ignore \in BOOLEAN :
                                 canTraverseDirection(e, n, "car", ignore)
    /\ ( /\ Finished
         /\ mode = "car"
         /\ ~ignoreRestrictions
         /\ startNodeId # endNodeId
         /\ StartHasEdge
         /\ \A i \in 1..Len(graph.adjacency[startNodeId]) :
                /\ graph.adjacency[startNodeId][i].oneway
                /\ graph.adjacency[startNodeId][i].isReverse )
            => Steps = << [type |-> "no-route"] >>

\* A car asked for the route against a oneway way that cars may use, and the
\* search ended.
C13_Witness ==
    /\ Finished
    /\ mode = "car"
    /\ ~ignoreRestrictions
    /\ StartHasEdge
    /\ StartEdge.oneway
    /\ StartEdge.isReverse
    /\ isEdgeAccessible(StartEdge, "car")
    /\ StartEdge.to = endNodeId

\* C14: canTraverseDirection is true for every edge that is not oneway in every
\* mode, and for every edge for a pedestrian; for a bicycle on a oneway edge
\* against the way's direction it is true exactly when onewayBicycle is false,
\* whatever ignoreRestrictions is.
C14_DirectionOtherModes ==
    \A e \in EdgesOf(graph) : \A n \in {e.from, e.to} : \A ignore \in BOOLEAN :
        /\ ~e.oneway => \A m \in RoutingMode : canTraverseDirection(e, n, m, ignore)
        /\ canTraverseDirection(e, n, "pedestrian", ignore)
        /\ (e.oneway /\ e.isReverse) =>
               (canTraverseDirection(e, n, "bicycle", ignore) <=> ~e.onewayBicycle)

\* A bicycle found its route against a oneway way tagged oneway:bicycle=no.
C14_Witness ==
    /\ FoundRoute
    /\ mode = "bicycle"
    /\ Len(LastStep.path) = 1
    /\ LastStep.path[1].oneway
    /\ LastStep.path[1].isReverse
    /\ ~LastStep.path[1].onewayBicycle

\* The highway table lets the mode use the edge.
TablePermits(e, m) ==
    /\ e.highway \in DOMAIN ROAD_ACCESS
    /\ ROAD_ACCESS[e.highway][m]

\* The access tags that count for a mode, the most specific first.
TagOrder(m) ==
    IF m = "car" THEN <<"motorVehicle", "vehicle", "access">>
    ELSE IF m = "bicycle" THEN <<"bicycle", "vehicle", "access">>
    ELSE <<"foot", "access">>

\* Those of them that the edge carries.
PresentTags(e, m) == SelectSeq(TagOrder(m), LAMBDA t : e[t] # undefined)

\* The tags that cannot change what tag d decides for mode m: those that come
\* after d in the mode's order and those that are not the mode's.
LessSpecific(m, d) ==
    LET order == TagOrder(m)
    IN  {order[k] : k \in {k \in 1..Len(order) : \E j \in 1..(k - 1) : order[j] = d}}
        \cup (OverrideTags \ {order[k] : k \in 1..Len(order)})

\* C15: on an edge that the highway table permits for the mode, isEdgeAccessible
\* is decided by the most specific access tag present (car: motorVehicle, then
\* vehicle, then access; bicycle: bicycle, vehicle, access; pedestrian: foot,
\* access): no value of a less specific tag or of a tag of another mode changes
\* the result, and with none of the mode's tags present the edge is accessible.
C15_MostSpecificTagDecides ==
    \A e \in EdgesOf(graph) :
        TablePermits(e, mode) =>
            LET present == PresentTags(e, mode)
            IN  IF present = <<>> THEN isEdgeAccessible(e, mode)
                ELSE \A t \in LessSpecific(mode, present[1]) : \A v \in TagValues :
                         isEdgeAccessible([e EXCEPT ![t] = v], mode)
                             = isEdgeAccessible(e, mode)

\* A car drove a way whose motor_vehicle tag allows it while its vehicle and
\* access tags deny.
C15_Witness ==
    /\ FoundRoute
    /\ mode = "car"
    /\ Len(LastStep.path) = 1
    /\ LastStep.path[1].motorVehicle = "destination"
    /\ LastStep.path[1].vehicle = "no"
    /\ LastStep.path[1].access = "private"

C17_TableCannotBeOverridden ==
    /\ \A e \in EdgesOf(graph) : \A m \in RoutingMode :
          ~TablePermits(e, m) => ~isEdgeAccessible(e, m)
    /\ ( /\ Finished
         /\ startNodeId # endNodeId
         /\ \A e \in EdgesOf(graph) : ~TablePermits(e, mode) )
            => Steps = << [type |-> "no-route"] >>

\* A bicycle asked for a route over a footway tagged bicycle=destination, and a
\* pedestrian-only or unlisted way with allowing tags gave no route.
C17_Witness ==
    /\ Finished
    /\ mode = "bicycle"
    /\ StartHasEdge
    /\ StartEdge.highway = "footway"
    /\ StartEdge.bicycle = "destination"
    /\ StartEdge.access = "destination"
    /\ LastStep.type = "no-route"

\* C18: in a graph that parseOSM returned, the keys of nodes, the keys of
\* adjacency and the node ids that occur as from or to of an edge are the same
\* set, and every edge in the list of key n has from = n.
C18_NodesAreTheEndpoints ==
    /\ DOMAIN graph.nodes = DOMAIN graph.adjacency
    /\ DOMAIN graph.nodes
           = {e.from : e \in EdgesOf(graph)} \cup {e.to : e \in EdgesOf(graph)}
    /\ \A n \in DOMAIN graph.adjacency :
           \A i \in 1..Len(graph.adjacency[n]) : graph.adjacency[n][i].from = n

\* The node elements of the file that step 1 keeps.
ParsedNodes == ParseNodes(xmlText.nodeEls, 1, <<>>)

\* A parsed node that no way segment uses was pruned, and the search ran on
\* the graph.
C18_Witness ==
    /\ Finished
    /\ graph.adjacency # <<>>
    /\ DOMAIN ParsedNodes \ DOMAIN graph.nodes # {}
    /\ Len(Steps) >= 2

\* The way elements of the file that carry a highway tag.
HighwayWays ==
    SelectSeq(xmlText.ways, LAMBDA w : w.highway # undefined /\ w.highway # "")

\* The segments of way w from u to v.
SegmentsOf(w, u, v) ==
    {j \in 1..(Len(w.nodeIds) - 1) : w.nodeIds[j] = u /\ w.nodeIds[j + 1] = v}

\* The edges of way w in the list of key n that lead to node t, in the way's
\* direction or against it.
EdgesAt(w, n, t, reverse) ==
    IF n \notin DOMAIN graph.adjacency THEN {}
    ELSE {i \in 1..Len(graph.adjacency[n]) :
              LET e == graph.adjacency[n][i]
              IN  /\ e.wayId = w.id
                  /\ e.from = n
                  /\ e.to = t
                  /\ e.isReverse = reverse}

\* The two edges carry the same way data, and their geometries are each
\* other's reverse.
SameWayData(f, r) ==
    /\ f.wayId = r.wayId
    /\ f.distance = r.distance
    /\ f.oneway = r.oneway
    /\ f.onewayBicycle = r.onewayBicycle
    /\ f.maxspeed = r.maxspeed
    /\ f.highway = r.highway
    /\ f.access = r.access
    /\ f.motorVehicle = r.motorVehicle
    /\ f.vehicle = r.vehicle
    /\ f.bicycle = r.bicycle
    /\ f.foot = r.foot
    /\ Len(f.geometry) = 2
    /\ r.geometry = <<f.geometry[2], f.geometry[1]>>

\* The number of segments of the ways from the i-th on whose two nodes are
\* among ids.
RECURSIVE SegmentCount(_, _, _)
SegmentCount(ways, ids, i) ==
    IF i > Len(ways) THEN 0
    ELSE Cardinality({j \in 1..(Len(ways[i].nodeIds) - 1) :
                          ways[i].nodeIds[j] \in ids /\ ways[i].nodeIds[j + 1] \in ids})
         + SegmentCount(ways, ids, i + 1)

Unparseable(text) == text = null \/ text \notin DOMAIN NumberTexts

\* The file without the node elements whose id, lat or lon is no number.
WithoutBadNodes(xml) ==
    [xml EXCEPT !.nodeEls =
        SelectSeq(@, LAMBDA el : /\ ~Unparseable(el.id)
                                 /\ ~Unparseable(el.lat)
                                 /\ ~Unparseable(el.lon))]

\* C20: a node element whose id, lat or lon is non-numeric, empty or absent is
\* skipped: the graph is the one parseOSM returns for the file without such
\* elements, so the element gives no node and no edge endpoint and changes
\* nothing else.
C20_BadNodeSkipped == graph = parseOSM(WithoutBadNodes(xmlText))

\* The indices of the 'explore' steps yielded so far.
ExploreSteps == {i \in 1..Len(Steps) : Steps[i].type = "explore"}

\* C28: a node is expanded at most once: the 'explore' steps with the same
\* fromNodeId stand next to each other, each comes from a node in the closed
\* set, the latest block is that of the node expanded last, and no directed
\* edge is explored twice.
C28_ExpandedAtMostOnce ==
    LET ex == ExploreSteps
    IN  /\ \A i \in ex : \A k \in ex :
              (i < k /\ Steps[i].fromNodeId = Steps[k].fromNodeId) =>
                  \A j \in i..k : Steps[j].fromNodeId = Steps[i].fromNodeId
        /\ \A i \in ex : Steps[i].fromNodeId \in search.closed
        /\ \A i \in ex : \A k \in ex : (i # k) => Steps[i].edge # Steps[k].edge
        /\ \A i \in ex :
              (Steps[i].fromNodeId = search.currentId) =>
                  \A j \in ex : j > i => Steps[j].fromNodeId = search.currentId

\* A node that was closed before is on top of the open set again, after
\* edges of two nodes have been explored.
C28_Witness ==
    /\ search.pc = "loop"
    /\ Len(search.openSet) > 0
    /\ HeapTop(search.openSet) \in search.closed
    /\ Cardinality({Steps[i].fromNodeId : i \in ExploreSteps}) >= 2

\* C29: a relaxation never changes the g score or the predecessor entry of a
\* node that is in the closed set.
C29_ClosedNodesFinal ==
    [][ \A n \in search.closed :
            /\ GScoreOf(search'.gScore, n) = GScoreOf(search.gScore, n)
            /\ (n \in DOMAIN search.cameFrom) =>
                   (n \in DOMAIN search'.cameFrom
                        /\ search'.cameFrom[n] = search.cameFrom[n])
            /\ (n \notin DOMAIN search.cameFrom) => (n \notin DOMAIN search'.cameFrom)
      ]_vars

\* C30: the search, driven until it has returned, returns: after finitely many
\* pops the goal is popped or the open set is empty, and the predecessor walk
\* ends at the start.
C30_SearchTerminates == <>Finished

\* The search returned with a route after it popped a node that was closed.
C30_Witness ==
    /\ FoundRoute
    /\ Len(LastStep.path) >= 2
    /\ Len(Steps) >= 6

\* The distance from the point (lat, lon) to the two-point geometry of an edge.
DistanceToEdge(lat, lon, edge) ==
    LET proj == projectPointOnSegment(lat, lon,
                                      edge.geometry[1][1], edge.geometry[1][2],
                                      edge.geometry[2][1], edge.geometry[2][2])
    IN  haversine(lat, lon, proj.x, proj.y)

\* C21: snapToRoad returns null exactly when the graph has no edge the mode
\* may use; a result that is not null names an edge of the graph that the mode
\* may use, and its nodeId is one of the two end nodes of that edge.
C21_SnapAccessibleOrNull ==
    snapCall # nullObject =>
        LET result == snapCall.result
            accessible == {e \in EdgesOf(graph) : isEdgeAccessible(e, mode)}
        IN  /\ (result = nullObject) <=> (accessible = {})
            /\ result # nullObject =>
                   /\ result.edge \in accessible
                   /\ result.nodeId \in {result.edge.from, result.edge.to}

\* A call that returned an edge although an edge the mode may not use lies
\* closer to the query point.
C21_Witness ==
    /\ snapCall # nullObject
    /\ snapCall.result # nullObject
    /\ \E e \in EdgesOf(graph) :
           /\ ~isEdgeAccessible(e, mode)
           /\ DistanceToEdge(snapCall.lat, snapCall.lon, e)
                  < snapCall.result.distanceToSnap

\* Two edge records of one physical segment: the same way between the same two
\* nodes, in either direction.
SameSegment(e, f) == e.wayId = f.wayId /\ {e.from, e.to} = {f.from, f.to}

\* C22: in one snapToRoad call on a parsed graph the geometry of every way
\* segment the mode may use is projected on once: no two of the edges the
\* call projected on are the two directed copies of one segment.
C22_SegmentProjectedOnce ==
    snapCall # nullObject =>
        /\ \A e \in EdgesOf(graph) :
               isEdgeAccessible(e, mode) =>
                   \E i \in 1..Len(snapCall.projected) :
                       SameSegment(snapCall.projected[i], e)
        /\ \A i, j \in 1..Len(snapCall.projected) :
               i # j => ~SameSegment(snapCall.projected[i], snapCall.projected[j])

\* C23: a call of trimRouteToSnapPoints leaves every edge object of the path
\* it was given as it was, geometry and points included, and the path and the
\* two snap results as well.
C23_InputsNotMutated ==
    [][ /\ \A i \in 1..Len(finalPath) : heap'[finalPath[i]] = heap[finalPath[i]]
        /\ finalPath' = finalPath
        /\ origin' = origin
        /\ destination' = destination ]_vars

\* A call on a path of two edges has returned a route whose first and last
\* edge both have a geometry other than the path's.
C23_Witness ==
    /\ trimmed # nullObject
    /\ Len(finalPath) = 2
    /\ heap[trimmed.edges[1]].geometry # heap[finalPath[1]].geometry
    /\ heap[trimmed.edges[2]].geometry # heap[finalPath[2]].geometry

\* The points of the geometry kept stand in trimmed as they stand in the
\* original, with a projected point in place of what was cut off in front,
\* behind or at both ends.
KeepsOriginalPoints(kept, original) ==
    LET n == Len(kept)
    IN  \/ \E a \in 1..(Len(original) + 1) :
               kept = <<kept[1]>> \o SubSeq(original, a, Len(original))
        \/ \E b \in 0..Len(original) :
               kept = Append(SubSeq(original, 1, b), kept[n])
        \/ /\ n >= 2
           /\ \E a \in 1..(Len(original) + 1), b \in 0..Len(original) :
                  kept = Append(<<kept[1]>> \o SubSeq(original, a, b), kept[n])

\* C24: the route trimRouteToSnapPoints returns has as many edges as the path,
\* in the same order; every edge has the fields of the path's edge except for
\* the geometry; the geometry of every edge but the first and the last is the
\* path's; and the geometry of the first and of the last edge keeps points of
\* the original geometry in their order.
C24_OnlyEndGeometriesTrimmed ==
    trimmed # nullObject =>
        /\ Len(trimmed.edges) = Len(finalPath)
        /\ \A i \in 1..Len(finalPath) :
               LET before == heap[finalPath[i]]
                   after == heap[trimmed.edges[i]]
               IN  /\ [after EXCEPT !.geometry = <<>>]
                          = [before EXCEPT !.geometry = <<>>]
                   /\ (1 < i /\ i < Len(finalPath)) =>
                          after.geometry = before.geometry
                   /\ Len(after.geometry) >= 1
                   /\ KeepsOriginalPoints(after.geometry, before.geometry)

\* A path of three edges was trimmed at both ends, and the geometry of its
\* first edge kept two of its three points behind the projected point.
C24_Witness ==
    /\ trimmed # nullObject
    /\ Len(finalPath) = 3
    /\ Len(heap[finalPath[1]].geometry) = 3
    /\ Len(heap[trimmed.edges[1]].geometry) = 3
    /\ heap[trimmed.edges[1]].geometry # heap[finalPath[1]].geometry
    /\ heap[trimmed.edges[3]].geometry # heap[finalPath[3]].geometry

\* The length measured along a geometry: the sum of the distances between
\* consecutive points.
RECURSIVE LengthAlong(_)
LengthAlong(geometry) ==
    IF Len(geometry) < 2 THEN 0
    ELSE haversine(geometry[1][1], geometry[1][2], geometry[2][1], geometry[2][2])
         + LengthAlong(Tail(geometry))

\* The snap point is the point of the geometry of edge at the end where the
\* snap result's node is.
SnapAtOwnNode(snap, edge) ==
    \/ snap.nodeId = edge.from /\ <<snap.lat, snap.lon>> = edge.geometry[1]
    \/ snap.nodeId = edge.to
           /\ <<snap.lat, snap.lon>> = edge.geometry[Len(edge.geometry)]

\* C26: no edge of the trimmed route is longer along its geometry than the
\* edge of the path it was made from.  The first edge of a path of several
\* edges is as long as before when the origin's snap point is the point of
\* the node it names, and so is the last edge for the destination; the edge of
\* a path of one edge is as long as before when the two snap points are the
\* points of its two end nodes.
C26_TrimmedNotLonger ==
    trimmed # nullObject =>
        LET n == Len(finalPath)
            before(i) == heap[finalPath[i]]
            lengthBefore(i) == LengthAlong(before(i).geometry)
            lengthAfter(i) == LengthAlong(heap[trimmed.edges[i]].geometry)
        IN  /\ \A i \in 1..n : lengthAfter(i) <= lengthBefore(i)
            /\ (n >= 2 /\ SnapAtOwnNode(origin, before(1))) =>
                   lengthAfter(1) = lengthBefore(1)
            /\ (n >= 2 /\ SnapAtOwnNode(destination, before(n))) =>
                   lengthAfter(n) = lengthBefore(n)
            /\ ( /\ n = 1
                 /\ SnapAtOwnNode(origin, before(1))
                 /\ SnapAtOwnNode(destination, before(1))
                 /\ origin.nodeId # destination.nodeId ) =>
                   lengthAfter(1) = lengthBefore(1)

\* A path of two edges whose origin was snapped to the point of its first
\* node, so that the first edge kept its length, and whose destination was
\* snapped inside the last edge, which came out shorter.
C26_Witness ==
    /\ trimmed # nullObject
    /\ Len(finalPath) = 2
    /\ SnapAtOwnNode(origin, heap[finalPath[1]])
    /\ LengthAlong(heap[trimmed.edges[1]].geometry)
           = LengthAlong(heap[finalPath[1]].geometry)
    /\ LengthAlong(heap[trimmed.edges[2]].geometry) > 0
    /\ LengthAlong(heap[trimmed.edges[2]].geometry)
           < LengthAlong(heap[finalPath[2]].geometry)

\* C25: the route shown for a path the search found starts at the snap point
\* of the origin and ends at the snap point of the destination the search was
\* run for: the first point of the geometry of its first edge is (origin.lat,
\* origin.lon) and the last point of the geometry of its last edge is
\* (destination.lat, destination.lon).
C25_RouteRunsFromSnapToSnap ==
    (trimmed # nullObject /\ Len(trimmed.edges) >= 1) =>
        LET first == heap[trimmed.edges[1]].geometry
            last == heap[trimmed.edges[Len(trimmed.edges)]].geometry
        IN  /\ first[1] = <<route.origin.lat, route.origin.lon>>
            /\ last[Len(last)] = <<route.destination.lat, route.destination.lon>>

\* snapToRoad returns snap for some point of the meridian, on the graph g and
\* for the mode m.
SnappedOn(snap, g, m) == \E lat \in SnapLats : snap = snapToRoad(lat, 0, g, m)

\* C27: when calculateRoute has run the search, the origin and the destination
\* it was run for are the application's two snap results, each is what
\* snapToRoad returns on the loaded graph for the current mode, the edge of
\* each is one the mode may use, and the search was given the current mode
\* and the current ignoreRestrictions.
C27_SearchUsesCurrentSnaps ==
    route # nullObject =>
        /\ graph # nullObject
        /\ route.origin = origin
        /\ route.destination = destination
        /\ route.mode = mode
        /\ route.ignoreRestrictions = ignoreRestrictions
        /\ SnappedOn(route.origin, graph, mode)
        /\ SnappedOn(route.destination, graph, mode)
        /\ isEdgeAccessible(route.origin.edge, mode)
        /\ isEdgeAccessible(route.destination.edge, mode)

\* The search has found a route for a pedestrian on a map with an edge that a
\* pedestrian may not use, from an origin that was snapped away from the point
\* it was asked for.
C27_Witness ==
    /\ route # nullObject
    /\ route.found
    /\ mode = "pedestrian"
    /\ route.origin.distanceToSnap > 0
    /\ \E e \in EdgesOf(graph) : ~isEdgeAccessible(e, mode)

\* C37: in the application the origin is set whenever clickState is
\* 'destination', and the origin is set whenever the destination is set.
C37_OriginSetBeforeDestination ==
    /\ clickState = "destination" => origin # nullObject
    /\ destination # nullObject => origin # nullObject

\* The loadMap call at place i of loading returns from its try block in this
\* step.
LoadMapSucceeds(i) ==
    /\ i \in 1..Len(loading)
    /\ loading[i].pc = "render"
    /\ loading' = Remove(loading, i)

\* C34: when a loadMap call has finished with success, the application holds
\* the graph parsed from the file of that call, origin and destination are
\* null and clickState is 'origin'.
C34_LoadLeavesFreshState ==
    [][ \A i \in 1..Len(loading) :
            LoadMapSucceeds(i) =>
                /\ graph' = LoadedGraph(FileText(loading[i].filename))
                /\ origin' = nullObject
                /\ destination' = nullObject
                /\ clickState' = "origin" ]_vars

\* C36: in the application ignoreRestrictions is true in car mode only, and
\* every search that a handler ran in bicycle or pedestrian mode was given
\* ignoreRestrictions false.
C36_IgnoreRestrictionsOnlyForCar ==
    /\ ignoreRestrictions => mode = "car"
    /\ \A i \in 1..Len(searches) :
           searches[i].mode # "car" => ~searches[i].ignoreRestrictions

\* A click on the bicycle or pedestrian button in car mode ran two searches:
\* one in car mode when the check box was cleared, and one in the new mode.
C36_Witness ==
    /\ Len(searches) = 2
    /\ searches[1].mode = "car"
    /\ searches[2].mode # "car"
    /\ searches[2].found

\* C33: a click on the map or the end of a drag of a marker that comes while
\* the animator is running, or for which snapToRoad returns null, leaves
\* origin, destination and clickState as they are and runs no search.
C33_IgnoredClicksChangeNothing ==
    [][ \A lat \in ClickLats :
            ( /\ \/ animating
                 \/ /\ graph # nullObject
                    /\ snapToRoad(lat, 0, graph, mode) = nullObject
              /\ MapClickAt(lat) \/ OriginDragTo(lat) \/ DestinationDragTo(lat) )
            => /\ origin' = origin
               /\ destination' = destination
               /\ clickState' = clickState
               /\ searches' = <<>>
               /\ animating' = animating ]_vars

\* The animation of a route is running, both points are set and the handler
\* that ran last ran no search: a click that was not ignored would have set
\* the origin to another point and cleared the destination.
C33_Witness ==
    /\ animating
    /\ route = nullObject
    /\ loading = <<>>
    /\ graph # nullObject
    /\ origin # nullObject
    /\ destination # nullObject
    /\ markers.origin
    /\ snapToRoad(4, 0, graph, mode) # nullObject
    /\ snapToRoad(4, 0, graph, mode) # origin


\* C35: when loadMap calls overlapped, every download completed and all of the
\* calls have settled, the graph of the application is the one parsed from the
\* file that was selected last.
C35_LastSelectedMapWins ==
    (loading = <<>> /\ selected # nullObject) =>
        /\ filename = selected
        /\ graph = LoadedGraph(FileText(selected))

\* C39: every edge in the path of a 'done' step was carried by an earlier
\* 'explore' step of the same sequence whose fromNodeId is the edge's from and
\* whose toNodeId is the edge's to.
C39_RouteEdgesWereExplored ==
    FoundRoute =>
        \A i \in 1..Len(LastStep.path) :
            \E k \in ExploreSteps :
                /\ k < Len(Steps)
                /\ Steps[k].edge = LastStep.path[i]
                /\ Steps[k].fromNodeId = LastStep.path[i].from
                /\ Steps[k].toNodeId = LastStep.path[i].to

\* A route of two edges or more with an edge that runs against its way, found
\* after edges that are not on the route were explored as well.
C39_Witness ==
    /\ FoundRoute
    /\ Len(LastStep.path) >= 2
    /\ \E i \in 1..Len(LastStep.path) : LastStep.path[i].isReverse
    /\ Cardinality(ExploreSteps) > Len(LastStep.path)

\* The last step of the search on the inputs at hand with ignoreRestrictions on.
LastStepIgnoring ==
    Only({ steps[Len(steps)] :
             steps \in {runAStarToCompletion(graph, startNodeId, endNodeId,
                                             mode, TRUE).steps} })

\* C40: setting ignoreRestrictions never loses a route: when the search with
\* ignoreRestrictions false ends in a 'done' step, the search on the same
\* graph, start, end and mode with ignoreRestrictions true ends in one too.
C40_IgnoringNeverLosesRoute ==
    (FoundRoute /\ ~ignoreRestrictions) => LastStepIgnoring.type = "done"

\* A route found under the restrictions where ignoring them gives a faster one.
C40_Witness ==
    /\ FoundRoute
    /\ ~ignoreRestrictions
    /\ LastStepIgnoring.type = "done"
    /\ LastStepIgnoring.totalTime < LastStep.totalTime

\* C31: after any sequence of push and pop on a MinHeap, a pop on an empty
\* heap returns undefined, any other pop returns a value whose key is at most
\* the key of every entry that was stored and of every entry still stored, and
\* takes that entry and no other out; and size is the number of pushes minus
\* the number of pops that returned an entry.
C31_PopReturnsLeastKey ==
    /\ Len(minHeap.items) = minHeap.pushes - minHeap.returned
    /\ (minHeap.call = "pop") =>
          LET before == minHeap.before
              after == minHeap.items
              result == minHeap.result
          IN  /\ result.defined <=> Len(before) > 0
              /\ result.defined =>
                    /\ \A i \in 1..Len(before) : result.key <= before[i].key
                    /\ \A i \in 1..Len(after) : result.key <= after[i].key
                    /\ {before[i] : i \in 1..Len(before)}
                          = {after[i] : i \in 1..Len(after)}
                              \cup {[key |-> result.key, value |-> result.value]}
                    /\ Len(after) = Len(before) - 1

\* A pop that took the least of four entries, two of them with equal keys,
\* pushed with a larger key first, after an earlier pop on the empty heap.
C31_Witness ==
    /\ minHeap.call = "pop"
    /\ Len(minHeap.before) = 4
    /\ minHeap.pops > minHeap.returned
    /\ \E i \in 1..4 : \E j \in 1..4 :
          i # j /\ minHeap.before[i].key = minHeap.before[j].key
    /\ \E i \in 1..4 : minHeap.before[i].value = 1
                          /\ minHeap.before[i].key > minHeap.result.key

\* The 'explore' steps among the steps that the animator has processed.
ProcessedExplores ==
    {i \in 1..animator.currentIndex : animator.steps[i].type = "explore"}

\* The animation has completed: the last onComplete callback invoked is that
\* of the latest start, and nothing was reset since.
AnimationCompleted ==
    /\ Len(animator.completed) > 0
    /\ animator.completed[Len(animator.completed)].run = animator.runs
    /\ animator.animationId = 0
    /\ animator.currentIndex = Len(animator.steps)

\* C38: with steps and a final path of one search loaded, routeEdges is never
\* more than the number of edges of the final path and is equal to it when
\* the animation has completed; it is never more than exploredEdges, which is
\* the number of 'explore' steps processed so far.
C38_RouteEdgesWithinPath ==
    (animator.steps # <<>>) =>
        /\ animator.routeCount <= Len(animator.finalPath)
        /\ AnimationCompleted => animator.routeCount = Len(animator.finalPath)
        /\ animator.routeCount <= animator.exploredCount
        /\ animator.exploredCount = Cardinality(ProcessedExplores)

\* The onComplete callbacks invoked so far.
Completions == {animator.completed[i] : i \in 1..Len(animator.completed)}

\* C32: under any interleaving of frames with loadSteps, start, stop, reset
\* and setSpeed: at most one frame callback is pending, and it is the one of
\* animationId; a start while the animator is running changes nothing; the
\* onComplete callback of a start call is invoked at most once, only when the
\* terminal step or the end of the steps has been reached, and never for a run
\* that was stopped or reset before; and after a step that invokes it
\* isRunning() is false.
C32_OneFrameOneCompletion ==
    /\ [](/\ Cardinality(animator.frames) <= 1
          /\ animator.frames = IF isRunning(animator)
                               THEN {animator.animationId} ELSE {}
          /\ Cardinality(Completions) = Len(animator.completed)
          /\ \A c \in Completions : c.reached /\ c.run \notin animator.halted
          /\ \A i \in 1..Len(animator.completed) :
             \A j \in 1..Len(animator.completed) :
                 (i # j) => animator.completed[i].run # animator.completed[j].run)
    /\ [][ /\ (Len(animator'.completed) > Len(animator.completed)) =>
                 (~isRunning(animator') /\ animator'.frames = {})
           /\ (StartAnimator /\ isRunning(animator)) => animator' = animator
         ]_vars

\* The latest run has completed, frames were requested and run, and an
\* earlier run was stopped, reset or reloaded before its end.
C32_Witness ==
    /\ Len(animator.completed) >= 1
    /\ animator.halted # {}
    /\ animator.nextFrame >= 3
    /\ ~isRunning(animator)
    /\ animator.completed[Len(animator.completed)].run = animator.runs

====
